---- MODULE Spec2Model ----
(***************************************************************************)
(* Verification model of corvusite-min.                                    *)
(*                                                                         *)
(*  - wincomp: the component expansion engine (Document::expand and        *)
(*    Document::expand_recurse, element::walk, element::find_mut).         *)
(*  - src/lazy_comp.rs: LazyComponent::component over an RwLock.           *)
(*  - markcomp/visitor.rs: the streaming markdown parser (simple,          *)
(*    paragraph, parse_link, ...) driving SimpleVisitor.                   *)
(*                                                                         *)
(* Sequences are 1-based here, Rust vectors are 0-based: an index i of the *)
(* source is the index i + 1 of the model.                                 *)
(***************************************************************************)
EXTENDS Integers, Sequences, FiniteSets, TLC

(***************************************************************************)
(* Bounds of the model.                                                    *)
(***************************************************************************)
\* largest number of nodes in a generated document
MaxDocNodes == 3
\* largest number of nodes in the body of the generated component "Box"
MaxBodyNodes == 2
\* largest number of attributes declared on a component root, and on a
\* call site, in the documents of SpecAttr
MaxAttrs == 2
\* number of threads that call LazyComponent::component on one cell
NumThreads == 2
\* largest number of ComponentGuards one thread holds at a time
MaxGuards == 2
\* passes of the fixed-point loop of one expand call that the model follows
MaxPasses == 6
\* largest number of pieces of markdown in an input of the visitor
MaxChunks == 4
\* largest number of nodes in the body of a component that is part of a
\* reference cycle, in SpecCycle
MaxCycleBody == 3
\* substitutions of one expand call that the model follows; the calls on
\* acyclic component sets stay below it
MaxSubstitutions == 20

\* the lines of a frontmatter block
MaxYamlLines == 3

\* the chunks of markdown after a frontmatter block
MaxRest == 2

\* the pieces of a markup source text
MaxParts == 3

\* the longest input of the combinator markdown parser, in characters
MaxMdLen == 6

\* pieces of a markdown document given to mdast::document
MaxDocParts == 5

\* inline nodes one top_paragraph call collects before the model stops it
MaxParagraphNodes == 8

\* files of a site given to process_site
MaxFiles == 3

\* calls of NodeArena::insert on one arena
MaxInserts == 100

(***************************************************************************)
(* wincomp/src/element.rs: the node tree.                                  *)
(* A node is a record of one shape for the three variants of Node; the     *)
(* fields a variant does not have are empty.  Option<&str> is a sequence   *)
(* of length 0 (None) or 1 (Some).  uid is not a field of the source: it   *)
(* names the nodes of the parsed document (1, 2, ... in document order)    *)
(* so that they can be told from the nodes copied from a template (0).     *)
(***************************************************************************)
Attribute(name, value) == [name |-> name, value |-> value]

Element(name, attributes, children) ==
    [kind |-> "Element", name |-> name, attributes |-> attributes,
     children |-> children, text |-> "", uid |-> 0]

Text(t) ==
    [kind |-> "Text", name |-> "", attributes |-> <<>>,
     children |-> <<>>, text |-> t, uid |-> 0]

Comment(t) ==
    [kind |-> "Comment", name |-> "", attributes |-> <<>>,
     children |-> <<>>, text |-> t, uid |-> 0]

\* Node::element / Node::element_mut
IsElement(n) == n.kind = "Element"

\* Vec::remove(i - 1)
RemoveAt(s, i) == SubSeq(s, 1, i - 1) \o SubSeq(s, i + 1, Len(s))

\* Vec::insert(i - 1, x)
InsertAt(s, i, x) == SubSeq(s, 1, i - 1) \o <<x>> \o SubSeq(s, i, Len(s))

Min(S) == CHOOSE x \in S : \A y \in S : x <= y

(***************************************************************************)
(* Component lookup: components.iter().find(|c| c.root.name == child.name) *)
(* The result is the position of the first match, 0 when there is none.    *)
(***************************************************************************)
\* the lookup with the comparison inverted
FindComponent_NotEqual(comps, name) ==
    LET hits == { k \in 1..Len(comps) : comps[k].name # name }
    IN  IF hits = {} THEN 0 ELSE Min(hits)

FindComponent(comps, name) ==
    LET hits == { k \in 1..Len(comps) : comps[k].name = name }
    IN  IF hits = {} THEN 0 ELSE Min(hits)

(***************************************************************************)
(* Attribute binding, lib.rs 81-103.                                       *)
(***************************************************************************)
\* child.attributes.iter().find(|a| a.name == name): position or 0
FindAttribute(attrs, name) ==
    LET hits == { k \in 1..Len(attrs) : attrs[k].name = name }
    IN  IF hits = {} THEN 0 ELSE Min(hits)

\* lib.rs 84-90: one entry per declared attribute, the call site's first
\* attribute of that name when it has one, else the declared attribute
ReplacementAttributes(declared, callAttrs) ==
    [ k \in 1..Len(declared) |->
        IF FindAttribute(callAttrs, declared[k].name) # 0
        THEN callAttrs[FindAttribute(callAttrs, declared[k].name)]
        ELSE declared[k] ]

\* lib.rs 97-101: the closure of walk applied to one attribute
BindAttribute(attr, replacement) ==
    LET hits == { k \in 1..Len(replacement) :
                    attr.value # <<>> /\ attr.value[1] = replacement[k].name }
    IN  IF hits = {} THEN attr
        ELSE [attr EXCEPT !.value = replacement[Min(hits)].value]

RECURSIVE walk(_, _)

\* a walk that visits the root and does not descend
walk_RootOnly(element, replacement) ==
    [element EXCEPT
        !.attributes = [ k \in 1..Len(@) |-> BindAttribute(@[k], replacement) ] ]

\* element.rs 48-57 with the closure of lib.rs 95-103: every element of
\* the subtree, the root included, gets its attributes bound
walk(element, replacement) ==
    [element EXCEPT
        !.attributes = [ k \in 1..Len(@) |-> BindAttribute(@[k], replacement) ],
        !.children   = [ k \in 1..Len(@) |->
                            IF IsElement(@[k]) THEN walk(@[k], replacement)
                            ELSE @[k] ] ]

(***************************************************************************)
(* Outlet search and splice, lib.rs 105-125 and element.rs 9-28.           *)
(***************************************************************************)
\* the children of el that are elements, in order (filter_map(|c| c.element()))
ElementChildren(el) ==
    LET RECURSIVE pick(_)
        pick(k) == IF k > Len(el.children) THEN <<>>
                   ELSE IF IsElement(el.children[k])
                        THEN <<el.children[k]>> \o pick(k + 1)
                        ELSE pick(k + 1)
    IN  pick(1)

\* lib.rs 109-113: position(|p| p.name == "children") over the element
\* children only; the result is 0-based as in the source, -1 for None
OutletPosition(el) ==
    LET ec   == ElementChildren(el)
        hits == { k \in 1..Len(ec) : ec[k].name = "children" }
    IN  IF hits = {} THEN -1 ELSE Min(hits) - 1

\* lib.rs 122-125: outlet.children.remove(inner_index) and then
\* outlet.children.append(&mut children)
SpliceInto(el, inner_index, children) ==
    [el EXCEPT !.children = RemoveAt(@, inner_index + 1) \o children]

\* find_mut that takes the root of the clone when no element holds an outlet
find_mut_RootWhenNone(element, children) ==
    [found |-> TRUE, element |-> [element EXCEPT !.children = @ \o children]]

\* element.rs 9-28 with the predicate of lib.rs 108-120 and the mutation of
\* lib.rs 122-125 applied to the element found: depth-first, the element
\* itself before its element children, the first hit wins.
\* The result is [found, element].
RECURSIVE find_mut(_, _)
find_mut(element, children) ==
    IF OutletPosition(element) >= 0
    THEN [found |-> TRUE,
          element |-> SpliceInto(element, OutletPosition(element), children)]
    ELSE LET RECURSIVE scan(_)
             scan(k) ==
                IF k > Len(element.children)
                THEN [found |-> FALSE, element |-> element]
                ELSE IF ~IsElement(element.children[k]) THEN scan(k + 1)
                ELSE LET r == find_mut(element.children[k], children)
                     IN  IF r.found
                         THEN [found |-> TRUE,
                               element |-> [element EXCEPT
                                              !.children[k] = r.element]]
                         ELSE scan(k + 1)
         IN  scan(1)

(***************************************************************************)
(* Replacement of the reference, lib.rs 127-131.                           *)
(***************************************************************************)
RECURSIVE InsertChildren(_, _, _, _)

\* every child inserted at index itself: nodes.insert(index, child)
RECURSIVE InsertChildren_AtIndex(_, _, _, _)
InsertChildren_AtIndex(nodes, index, kids, i) ==
    IF i > Len(kids) THEN nodes
    ELSE InsertChildren_AtIndex(InsertAt(nodes, index, kids[i]),
                                index, kids, i + 1)

\* lib.rs 129-131: nodes.insert(index + i, child) for the i-th child
InsertChildren(nodes, index, kids, i) ==
    IF i > Len(kids) THEN nodes
    ELSE InsertChildren(InsertAt(nodes, index + (i - 1), kids[i]),
                        index, kids, i + 1)

\* lib.rs 127-131
ReplaceReference(nodes, index, component_copy) ==
    InsertChildren(RemoveAt(nodes, index), index, component_copy.children, 1)

\* the binding and the splice done on the template itself
Registered_Aliased(comps, k, copy) == [comps EXCEPT ![k] = copy]

\* lib.rs 92: the registered components after component k was copied and
\* the copy was bound or spliced: component_copy is component.root.clone(),
\* the slice of components is only read
Registered(comps, k, copy) == comps

(***************************************************************************)
(* Addressing a node list inside the tree: the list a frame of             *)
(* expand_recurse works on is reached from the document's top-level list   *)
(* through the indices of the frames below it.                             *)
(***************************************************************************)
RECURSIVE ListAt(_, _)
ListAt(nodes, path) ==
    IF path = <<>> THEN nodes
    ELSE ListAt(nodes[path[1]].children, Tail(path))

RECURSIVE SetListAt(_, _, _)
SetListAt(nodes, path, new) ==
    IF path = <<>> THEN new
    ELSE [nodes EXCEPT ![path[1]].children = SetListAt(@, Tail(path), new)]

(***************************************************************************)
(* Generated inputs: every node list of a given size over a set of names   *)
(* of elements that may have children and a set of childless nodes.        *)
(***************************************************************************)
RECURSIVE Forests(_, _, _)
RECURSIVE Trees(_, _, _)
\* the node lists with exactly n nodes
Forests(n, names, leaves) ==
    IF n = 0 THEN { <<>> }
    ELSE UNION { { <<t>> \o rest : t \in Trees(k, names, leaves),
                                   rest \in Forests(n - k, names, leaves) }
                 : k \in 1..n }

\* the single nodes whose subtree has exactly n nodes
Trees(n, names, leaves) ==
    IF n = 1 THEN leaves \cup { Element(nm, <<>>, <<>>) : nm \in names }
    ELSE { Element(nm, <<>>, f) : nm \in names,
                                  f \in Forests(n - 1, names, leaves) }

ForestsUpTo(n, names, leaves) ==
    UNION { Forests(k, names, leaves) : k \in 0..n }

\* number of nodes of a node list
RECURSIVE Size(_)
Size(nodes) ==
    IF nodes = <<>> THEN 0
    ELSE 1 + Size(Head(nodes).children) + Size(Tail(nodes))

\* numbers the nodes of a parsed document 1, 2, ... in document order
RECURSIVE Numbered(_, _)
Numbered(nodes, next) ==
    IF nodes = <<>> THEN <<>>
    ELSE LET n == Head(nodes)
         IN  <<[n EXCEPT !.uid = next,
                         !.children = Numbered(@, next + 1)]>>
             \o Numbered(Tail(nodes), next + 1 + Size(n.children))

\* the documents: references to Box, the unknown tag b and the text A
Documents ==
    { Numbered(d, 1) :
        d \in ForestsUpTo(MaxDocNodes, {"Box", "b"}, {Text("A")}) \ { <<>> } }

\* component bodies of Box: the unknown tag h with any content, the outlet,
\* a reference to the component Card and the text T
BoxBodies ==
    ForestsUpTo(MaxBodyNodes, {"h"},
                { Text("T"), Element("children", <<>>, <<>>),
                  Element("Card", <<>>, <<>>) })

\* the registered components, Component { root }: Box with a generated
\* body and the component Card, which has no children
ComponentSets ==
    { <<Element("Box", <<>>, bb), Element("Card", <<>>, <<>>)>> :
        bb \in BoxBodies }

\* the sequences over S of length n, and of length at most n
RECURSIVE SeqsOfLen(_, _)
SeqsOfLen(S, n) ==
    IF n = 0 THEN { <<>> }
    ELSE { Append(q, x) : q \in SeqsOfLen(S, n - 1), x \in S }

SeqsUpTo(S, n) == UNION { SeqsOfLen(S, k) : k \in 0..n }

(***************************************************************************)
(* Generated inputs with reference cycles: Box references itself, or Box   *)
(* references Card and Card references Box.                                *)
(***************************************************************************)
\* the names of the components that the elements of a node list name, at
\* every depth
RECURSIVE References(_, _)
References(ns, comps) ==
    UNION { IF IsElement(ns[k])
            THEN (IF \E c \in 1..Len(comps) : comps[c].name = ns[k].name
                  THEN { ns[k].name } ELSE {})
                 \cup References(ns[k].children, comps)
            ELSE {}
            : k \in 1..Len(ns) }

\* the names reached from a set of names through the component bodies
RECURSIVE ReachedFrom(_, _, _)
ReachedFrom(names, comps, steps) ==
    IF steps = 0 THEN names
    ELSE ReachedFrom(
            names \cup UNION { References(comps[c].children, comps)
                               : c \in { c \in 1..Len(comps) :
                                            comps[c].name \in names } },
            comps, steps - 1)

\* a component that the document reaches lies on a cycle of the reference
\* graph
CycleReachable(doc, comps) ==
    \E c \in 1..Len(comps) :
        /\ comps[c].name \in ReachedFrom(References(doc, comps), comps,
                                          Len(comps))
        /\ comps[c].name \in ReachedFrom(
                                References(comps[c].children, comps),
                                comps, Len(comps))

\* the number of elements of a flat body with a given name
CountNamed(body, name) ==
    Cardinality({ k \in 1..Len(body) : body[k].name = name })

\* flat bodies of Box over text, the outlet and references
CycleBodies ==
    SeqsUpTo({ Text("T"), Element("children", <<>>, <<>>),
               Element("Box", <<>>, <<>>), Element("Card", <<>>, <<>>) },
             MaxCycleBody)

\* Box references itself once, and Card, which has no children, at most
\* once; or Box references Card once and Card references Box
CyclicComponentSets ==
    { cs \in
        { <<Element("Box", <<>>, bb), Element("Card", <<>>, <<>>)>> :
            bb \in { b \in CycleBodies : /\ CountNamed(b, "Box") = 1
                                         /\ CountNamed(b, "Card") <= 1 } }
        \cup
        { <<Element("Box", <<>>, bb),
            Element("Card", <<>>, <<Element("Box", <<>>, <<>>)>>)>> :
            bb \in { b \in CycleBodies : /\ CountNamed(b, "Box") = 0
                                         /\ CountNamed(b, "Card") = 1 } } :
        CycleReachable(<<Element("Box", <<>>, <<>>)>>, cs) }

\* documents with one reference to Box
CycleDocuments ==
    { Numbered(d, 1) :
        d \in { <<Element("Box", <<>>, <<>>)>>,
                <<Element("Box", <<>>, <<Text("A")>>)>>,
                <<Text("A"), Element("Box", <<>>, <<>>)>>,
                <<Element("b", <<>>, <<Element("Box", <<>>, <<>>)>>)>> } }

(***************************************************************************)
(* Generated inputs with attributes: components whose root declares formal *)
(* parameters and whose body uses them as attribute values, and call sites *)
(* that pass attributes.                                                   *)
(***************************************************************************)
\* attributes a component root may declare: size with a default, size
\* without a value, color with a default
DeclaredAttributes ==
    { Attribute("size", <<"1">>), Attribute("size", <<>>),
      Attribute("color", <<"red">>) }

\* attributes a call site may carry: size with a value, color without a
\* value, and one that names no formal parameter
CallAttributes ==
    { Attribute("size", <<"24">>), Attribute("color", <<>>),
      Attribute("id", <<"size">>) }

\* bodies of Box that use formal parameter names as attribute values, on a
\* top-level element and on a nested one
AttrBodies ==
    UNION { { << Text("T"),
                 Element("h", <<Attribute("class", v1)>>,
                         <<Element("g", <<Attribute("w", v2),
                                          Attribute("k", <<"size">>)>>, <<>>)>>) >>,
              << Element("h", <<Attribute("class", v1)>>,
                         <<Element("g", <<Attribute("w", v2),
                                          Attribute("k", <<"size">>)>>, <<>>),
                           Element("children", <<>>, <<>>)>>) >>,
              << Element("h", <<Attribute("class", v1)>>,
                         <<Element("g", <<Attribute("w", v2),
                                          Attribute("k", <<"size">>)>>, <<>>)>>),
                 Element("Card", <<>>, <<>>) >> }
            : v1 \in { <<"size">>, <<"color">>, <<"x">> },
              v2 \in { <<"size">>, <<>> } }

AttrComponentSets ==
    { <<Element("Box", declared, body), Element("Card", <<>>, <<>>)>> :
        declared \in SeqsUpTo(DeclaredAttributes, MaxAttrs),
        body \in AttrBodies }

\* documents with one reference to Box that carries attributes
AttrDocuments ==
    UNION { { Numbered(<< Text("A"),
                          Element("Box", passed, <<Text("A")>>) >>, 1),
              Numbered(<< Element("b", <<Attribute("class", <<"size">>)>>,
                                  <<Element("Box", passed,
                                            <<Comment("c")>>)>>) >>, 1) }
            : passed \in SeqsUpTo(CallAttributes, MaxAttrs) }

(***************************************************************************)
(* State.                                                                  *)
(***************************************************************************)
VARIABLES
    nodes,           \* Document.nodes
    components,      \* the slice of components passed to expand
    stack,           \* the active calls of expand_recurse, outermost first:
                     \* [index, mutated, phase]
    component_copy,  \* lib.rs 92, between the clone and the replacement
    children,        \* lib.rs 105, the call site's children after the splice
    pc,              \* Document::expand: idle, running, returned, panicked
    passes,          \* iterations of the loop of lib.rs 36 in this call
    substitutions,   \* references replaced since the current call began
    snapshot,        \* Document.nodes when the current call began
    rerun,           \* the current call follows a call that returned
    original         \* Document.nodes as parsed

expandVars == <<nodes, components, stack, component_copy, children, pc,
                passes, substitutions, snapshot, rerun, original>>

(***************************************************************************)
(* src/lazy_comp.rs: one LazyComponent shared by the threads.              *)
(***************************************************************************)
VARIABLES
    raw_ok,      \* Component::new(self.raw) is Ok: the raw markup is well-formed
    component,   \* the Option in the RwLock: 0 for None, else the number of
                 \* the parse that produced the stored Component
    parses,      \* number of Component::new(self.raw) calls so far
    readers,     \* number of read locks held (temporaries and guards)
    writer,      \* the thread that holds the write lock, 0 when none does
    poisoned,    \* a thread panicked while it held the write lock
    lpc,         \* per thread: where it is in component()
    guards,      \* per thread: the ComponentGuards it holds
    late,        \* per thread: its current call began when the Option was Some
    seen         \* per thread: the values its guards dereferenced to

lazyVars == <<raw_ok, component, parses, readers, writer, poisoned, lpc,
              guards, late, seen>>

(***************************************************************************)
(* markcomp/src/visitor.rs: one run of SimpleVisitor::new on one input.    *)
(***************************************************************************)
VARIABLES
    source,      \* the bytes given to SimpleVisitor::new
    input,       \* the parser's cursor: the bytes not yet consumed
    frames,      \* the active calls of paragraph, outermost first, each
                 \* named after its caller: [fn, depth]
    visitor,     \* the SimpleVisitor: [state, output, link_buffer, footnotes]
    vpc,         \* idle, running, done (new returned Ok), error (new
                 \* returned Err), output
    result,      \* the bytes SimpleVisitor::output returned
    defs         \* the identifiers of the footnote definitions entered

visitorVars == <<source, input, frames, visitor, vpc, result, defs>>

(***************************************************************************)
(* One run of each of the other compilers, a record apiece.                *)
(***************************************************************************)
VARIABLES
    pull,        \* markcomp/src/pull.rs, Writer::new on one event stream:
                 \* [events, writer, code, pc]
    markup,      \* wincomp/src/parse.rs and lib.rs, Document::new and
                 \* Document::write on one source text
    md,          \* markcomp/src/mdast.rs and arena.rs, the parses of one
                 \* markdown text
    site         \* src/gen.rs, one call of process_site

vars == <<expandVars, lazyVars, visitorVars, pull, markup, md, site>>

\* the variables the steps of one part of the program leave alone
notExpand == <<lazyVars, visitorVars, pull, markup, md, site>>

notLazy == <<expandVars, visitorVars, pull, markup, md, site>>

notVisitor == <<expandVars, lazyVars, pull, markup, md, site>>

notPull == <<expandVars, lazyVars, visitorVars, markup, md, site>>

notMarkup == <<expandVars, lazyVars, visitorVars, pull, md, site>>

notMdast == <<expandVars, lazyVars, visitorVars, pull, markup, site>>

notSite == <<expandVars, lazyVars, visitorVars, pull, markup, md>>

Threads == 1..NumThreads

InitLazy ==
    /\ raw_ok \in BOOLEAN
    /\ component = 0
    /\ parses = 0
    /\ readers = 0
    /\ writer = 0
    /\ poisoned = FALSE
    /\ lpc = [t \in Threads |-> "idle"]
    /\ guards = [t \in Threads |-> 0]
    /\ late = [t \in Threads |-> FALSE]
    /\ seen = [t \in Threads |-> {}]

\* the cell when nothing calls it
IdleLazy ==
    /\ raw_ok = TRUE
    /\ component = 0
    /\ parses = 0
    /\ readers = 0
    /\ writer = 0
    /\ poisoned = FALSE
    /\ lpc = <<>>
    /\ guards = <<>>
    /\ late = <<>>
    /\ seen = <<>>

\* the write path stores whatever the Option holds
NeedsInit_Always(c) == TRUE

\* lazy_comp.rs 45: component.is_none() under the write lock
NeedsInit(c) == c = 0

\* lazy_comp.rs 34: a thread calls component()
Call(t) ==
    /\ lpc[t] = "idle"
    /\ guards[t] < MaxGuards
    /\ lpc' = [lpc EXCEPT ![t] = "read"]
    /\ late' = [late EXCEPT ![t] = (component # 0)]
    /\ UNCHANGED <<raw_ok, component, parses, readers, writer, poisoned,
                   guards, seen>>
    /\ UNCHANGED notLazy

\* lazy_comp.rs 35: self.component.read().unwrap(); the lock is granted
\* when no thread holds the write lock, and unwrap panics on a poisoned lock
ReadLock(t) ==
    /\ lpc[t] = "read"
    /\ writer = 0
    /\ IF poisoned
       THEN /\ lpc' = [lpc EXCEPT ![t] = "panicked"]
            /\ UNCHANGED readers
       ELSE /\ lpc' = [lpc EXCEPT ![t] = "check"]
            /\ readers' = readers + 1
    /\ UNCHANGED <<raw_ok, component, parses, writer, poisoned, guards,
                   late, seen>>
    /\ UNCHANGED notLazy

\* lazy_comp.rs 37-38: the value is there, the read lock becomes the guard
FastPath(t) ==
    /\ lpc[t] = "check"
    /\ component # 0
    /\ guards' = [guards EXCEPT ![t] = @ + 1]
    /\ lpc' = [lpc EXCEPT ![t] = "idle"]
    /\ UNCHANGED <<raw_ok, component, parses, readers, writer, poisoned,
                   late, seen>>
    /\ UNCHANGED notLazy

\* lazy_comp.rs 39-40: the value is missing, the read lock is dropped
DropRead(t) ==
    /\ lpc[t] = "check"
    /\ component = 0
    /\ readers' = readers - 1
    /\ lpc' = [lpc EXCEPT ![t] = "write"]
    /\ UNCHANGED <<raw_ok, component, parses, writer, poisoned, guards,
                   late, seen>>
    /\ UNCHANGED notLazy

\* lazy_comp.rs 42: self.component.write().unwrap(); the lock is granted
\* when no thread holds it for reading or writing
WriteLock(t) ==
    /\ lpc[t] = "write"
    /\ writer = 0
    /\ readers = 0
    /\ IF poisoned
       THEN /\ lpc' = [lpc EXCEPT ![t] = "panicked"]
            /\ UNCHANGED writer
       ELSE /\ lpc' = [lpc EXCEPT ![t] = "init"]
            /\ writer' = t
    /\ UNCHANGED <<raw_ok, component, parses, readers, poisoned, guards,
                   late, seen>>
    /\ UNCHANGED notLazy

\* lazy_comp.rs 45-48: under the write lock, parse and store when the
\* value is still missing; expect panics on a malformed raw string, which
\* releases the lock poisoned
Initialize(t) ==
    /\ lpc[t] = "init"
    /\ IF NeedsInit(component)
       THEN /\ parses' = parses + 1
            /\ IF raw_ok
               THEN /\ component' = parses + 1
                    /\ lpc' = [lpc EXCEPT ![t] = "unlock"]
                    /\ UNCHANGED <<writer, poisoned>>
               ELSE /\ lpc' = [lpc EXCEPT ![t] = "panicked"]
                    /\ writer' = 0
                    /\ poisoned' = TRUE
                    /\ UNCHANGED component
       ELSE /\ lpc' = [lpc EXCEPT ![t] = "unlock"]
            /\ UNCHANGED <<component, parses, writer, poisoned>>
    /\ UNCHANGED <<raw_ok, readers, guards, late, seen>>
    /\ UNCHANGED notLazy

\* lazy_comp.rs 49: the write lock is dropped
WriteUnlock(t) ==
    /\ lpc[t] = "unlock"
    /\ writer' = 0
    /\ lpc' = [lpc EXCEPT ![t] = "reread"]
    /\ UNCHANGED <<raw_ok, component, parses, readers, poisoned, guards,
                   late, seen>>
    /\ UNCHANGED notLazy

\* lazy_comp.rs 51-52: the lock is taken for reading again and returned
\* as the guard
Reread(t) ==
    /\ lpc[t] = "reread"
    /\ writer = 0
    /\ IF poisoned
       THEN /\ lpc' = [lpc EXCEPT ![t] = "panicked"]
            /\ UNCHANGED <<readers, guards>>
       ELSE /\ lpc' = [lpc EXCEPT ![t] = "idle"]
            /\ readers' = readers + 1
            /\ guards' = [guards EXCEPT ![t] = @ + 1]
    /\ UNCHANGED <<raw_ok, component, parses, writer, poisoned, late, seen>>
    /\ UNCHANGED notLazy

\* lazy_comp.rs 21-23: a guard is dereferenced, self.0.as_ref().unwrap()
Deref(t) ==
    /\ lpc[t] = "idle"
    /\ guards[t] > 0
    /\ seen' = [seen EXCEPT ![t] = @ \cup {component}]
    /\ lpc' = [lpc EXCEPT ![t] = IF component = 0 THEN "panicked" ELSE "idle"]
    /\ UNCHANGED <<raw_ok, component, parses, readers, writer, poisoned,
                   guards, late>>
    /\ UNCHANGED notLazy

\* lazy_comp.rs 16: a guard is dropped and releases its read lock
DropGuard(t) ==
    /\ lpc[t] = "idle"
    /\ guards[t] > 0
    /\ guards' = [guards EXCEPT ![t] = @ - 1]
    /\ readers' = readers - 1
    /\ UNCHANGED <<raw_ok, component, parses, writer, poisoned, lpc,
                   late, seen>>
    /\ UNCHANGED notLazy

NextLazy ==
    \E t \in Threads :
        \/ Call(t)
        \/ ReadLock(t)
        \/ FastPath(t)
        \/ DropRead(t)
        \/ WriteLock(t)
        \/ Initialize(t)
        \/ WriteUnlock(t)
        \/ Reread(t)
        \/ Deref(t)
        \/ DropGuard(t)

\* lib.rs 44 and 72: a fresh call of expand_recurse
NewFrame == [index |-> 1, mutated |-> FALSE, phase |-> "scan"]

\* no element: the value of component_copy outside lib.rs 92-131
NoElement == Element("", <<>>, <<>>)

Top == stack[Len(stack)]

\* where the node list of the innermost call sits in the document
Path == [ k \in 1..(Len(stack) - 1) |-> stack[k].index ]

\* the node list the innermost call works on
Cur == ListAt(nodes, Path)

SetTop(f) == [stack EXCEPT ![Len(stack)] = f]

InitExpand(docs, comps) ==
    /\ nodes \in docs
    /\ components \in comps
    /\ stack = <<>>
    /\ component_copy = NoElement
    /\ children = <<>>
    /\ pc = "idle"
    /\ passes = 0
    /\ substitutions = 0
    /\ snapshot = nodes
    /\ rerun = FALSE
    /\ original = nodes

(***************************************************************************)
(* Document::expand and Document::expand_recurse, one action per step.     *)
(***************************************************************************)
\* lib.rs 35-37: expand is called and starts its first pass
Expand ==
    /\ pc \in {"idle", "returned"}
    /\ pc' = "running"
    /\ rerun' = (pc = "returned")
    /\ passes' = 1
    /\ substitutions' = 0
    /\ snapshot' = nodes
    /\ stack' = <<NewFrame>>
    /\ UNCHANGED <<nodes, components, component_copy, children, original>>
    /\ UNCHANGED notExpand

\* lib.rs 73-74: the loop is at a node that is an element
AtElement ==
    /\ pc = "running"
    /\ Top.phase = "scan"
    /\ Top.index <= Len(Cur)
    /\ IsElement(Cur[Top.index])

\* lib.rs 73-77: a text or comment node is stepped over
SkipNonElement ==
    /\ pc = "running"
    /\ Top.phase = "scan"
    /\ Top.index <= Len(Cur)
    /\ ~IsElement(Cur[Top.index])
    /\ stack' = SetTop([Top EXCEPT !.index = @ + 1])
    /\ UNCHANGED <<nodes, components, component_copy, children, pc, passes,
                   substitutions, snapshot, rerun, original>>
    /\ UNCHANGED notExpand

\* lib.rs 79-103: the element names a component; the template is cloned
\* and the clone's attributes are bound
Bind ==
    /\ AtElement
    /\ substitutions < MaxSubstitutions
    /\ LET child == Cur[Top.index]
           k     == FindComponent(components, child.name)
       IN  /\ k # 0
           /\ component_copy' =
                 walk(components[k],
                      ReplacementAttributes(components[k].attributes,
                                            child.attributes))
           /\ components' = Registered(components, k, component_copy')
    /\ stack' = SetTop([Top EXCEPT !.mutated = TRUE, !.phase = "bound"])
    /\ substitutions' = substitutions + 1
    /\ UNCHANGED <<nodes, children, pc, passes, snapshot, rerun, original>>
    /\ UNCHANGED notExpand

\* lib.rs 105-125: the call site's children are taken and spliced into the
\* element of the clone that holds the outlet
Splice ==
    /\ pc = "running"
    /\ Top.phase = "bound"
    /\ LET taken == Cur[Top.index].children
           r     == find_mut(component_copy, taken)
           k     == FindComponent(components, Cur[Top.index].name)
       IN  /\ component_copy' = r.element
           /\ children' = IF r.found THEN <<>> ELSE taken
           /\ nodes' = SetListAt(nodes, Path,
                                 [Cur EXCEPT ![Top.index].children = <<>>])
           /\ components' = Registered(components, k, component_copy')
    /\ stack' = SetTop([Top EXCEPT !.phase = "spliced"])
    /\ UNCHANGED <<pc, passes, substitutions, snapshot, rerun, original>>
    /\ UNCHANGED notExpand

\* lib.rs 127-131: the reference is removed and the clone's children are
\* inserted where it stood
Replace ==
    /\ pc = "running"
    /\ Top.phase = "spliced"
    /\ nodes' = SetListAt(nodes, Path,
                          ReplaceReference(Cur, Top.index, component_copy))
    /\ component_copy' = NoElement
    /\ children' = <<>>
    /\ stack' = SetTop([Top EXCEPT !.phase = "descend"])
    /\ UNCHANGED <<components, pc, passes, substitutions, snapshot, rerun, original>>
    /\ UNCHANGED notExpand

\* lib.rs 135 is reached: after a replacement, or directly when the
\* element names no component
AtLine135 ==
    /\ pc = "running"
    /\ \/ Top.phase = "descend"
       \/ AtElement /\ FindComponent(components, Cur[Top.index].name) = 0

\* lib.rs 135: nodes[index] with index == nodes.len() panics
Panic ==
    /\ AtLine135
    /\ Top.index > Len(Cur)
    /\ pc' = "panicked"
    /\ UNCHANGED <<nodes, components, stack, component_copy, children,
                   passes, substitutions, snapshot, rerun, original>>
    /\ UNCHANGED notExpand

\* lib.rs 135-138: the node now at index is not an element
SkipAfter ==
    /\ AtLine135
    /\ Top.index <= Len(Cur)
    /\ ~IsElement(Cur[Top.index])
    /\ stack' = SetTop([Top EXCEPT !.index = @ + 1, !.phase = "scan"])
    /\ UNCHANGED <<nodes, components, component_copy, children, pc, passes,
                   substitutions, snapshot, rerun, original>>
    /\ UNCHANGED notExpand

\* lib.rs 135-140: the call descends into the children of the element now
\* at index
Recurse ==
    /\ AtLine135
    /\ Top.index <= Len(Cur)
    /\ IsElement(Cur[Top.index])
    /\ stack' = Append(SetTop([Top EXCEPT !.phase = "descend"]), NewFrame)
    /\ UNCHANGED <<nodes, components, component_copy, children, pc, passes,
                   substitutions, snapshot, rerun, original>>
    /\ UNCHANGED notExpand

\* lib.rs 73, 176 and 140-142: a nested call is through with its list and
\* returns mutated to its caller, which moves on
Return ==
    /\ pc = "running"
    /\ Len(stack) > 1
    /\ Top.phase = "scan"
    /\ Top.index > Len(Cur)
    /\ LET caller == stack[Len(stack) - 1]
       IN  stack' = Append(SubSeq(stack, 1, Len(stack) - 2),
                           [index   |-> caller.index + 1,
                            mutated |-> caller.mutated \/ Top.mutated,
                            phase   |-> "scan"])
    /\ UNCHANGED <<nodes, components, component_copy, children, pc, passes,
                   substitutions, snapshot, rerun, original>>
    /\ UNCHANGED notExpand

\* lib.rs 36-37: the pass returned true, the loop runs another pass
NextPass ==
    /\ pc = "running"
    /\ Len(stack) = 1
    /\ Top.phase = "scan"
    /\ Top.index > Len(Cur)
    /\ Top.mutated
    /\ passes < MaxPasses
    /\ passes' = passes + 1
    /\ stack' = <<NewFrame>>
    /\ UNCHANGED <<nodes, components, component_copy, children, pc,
                   substitutions, snapshot, rerun, original>>
    /\ UNCHANGED notExpand

\* expand returning after its first pass, whatever the pass returned
ExpandReturn_SinglePass ==
    /\ pc = "running"
    /\ Len(stack) = 1
    /\ Top.phase = "scan"
    /\ Top.index > Len(Cur)
    /\ pc' = "returned"
    /\ stack' = <<>>
    /\ UNCHANGED <<nodes, components, component_copy, children, passes,
                   substitutions, snapshot, rerun, original>>
    /\ UNCHANGED notExpand

\* lib.rs 37-41: the pass returned false, expand returns
ExpandReturn ==
    /\ pc = "running"
    /\ Len(stack) = 1
    /\ Top.phase = "scan"
    /\ Top.index > Len(Cur)
    /\ ~Top.mutated
    /\ pc' = "returned"
    /\ stack' = <<>>
    /\ UNCHANGED <<nodes, components, component_copy, children, passes,
                   substitutions, snapshot, rerun, original>>
    /\ UNCHANGED notExpand

NextExpand ==
    \/ Expand
    \/ SkipNonElement
    \/ Bind
    \/ Splice
    \/ Replace
    \/ Panic
    \/ SkipAfter
    \/ Recurse
    \/ Return
    \/ NextPass
    \/ ExpandReturn

(***************************************************************************)
(* markcomp/src/visitor.rs: the parser's helpers.  Bytes are one-character *)
(* strings, a buffer is a sequence of byte strings and of the literals the *)
(* visitor writes in one piece.                                            *)
(***************************************************************************)
Newlines == { "\n", "\r" }

\* the byte 0x60, which no input holds
Backtick == "0x60"

\* u8::is_ascii_whitespace over the bytes of the inputs
Whitespace == { " ", "\t", "\n", "\f", "\r" }

\* visitor.rs 111-118 and 120-127, the test; the steps that use it move
\* the cursor with skip
starts_with(in, sequence) ==
    /\ Len(in) >= Len(sequence)
    /\ SubSeq(in, 1, Len(sequence)) = sequence

\* visitor.rs 129-131: the cursor moves by min(len, input.len())
skip(in, len) == SubSeq(in, Min({len, Len(in)}) + 1, Len(in))

\* visitor.rs 91-109 with the predicate |_| true: the bytes before the
\* first hint, the cursor left on the hint; all of the input when there is
\* no hint
advance_to(in, hint) ==
    LET hits == { i \in 1..Len(in) : in[i] = hint }
        stop == IF hits = {} THEN Len(in) + 1
                ELSE CHOOSE i \in hits : \A j \in hits : i <= j
    IN  [result |-> SubSeq(in, 1, stop - 1), rest |-> SubSeq(in, stop, Len(in))]

\* visitor.rs 91-109 with the predicate |i| i.starts_with(sequence) and
\* the first byte of the sequence as the hint
advance_to_sequence(in, sequence) ==
    LET hits == { i \in 1..Len(in) :
                    /\ in[i] = sequence[1]
                    /\ starts_with(SubSeq(in, i, Len(in)), sequence) }
        stop == IF hits = {} THEN Len(in) + 1
                ELSE CHOOSE i \in hits : \A j \in hits : i <= j
    IN  [result |-> SubSeq(in, 1, stop - 1), rest |-> SubSeq(in, stop, Len(in))]

\* visitor.rs 133-143
skip_newlines(in) ==
    LET others == { i \in 1..Len(in) : in[i] \notin Newlines }
        stop == IF others = {} THEN Len(in) + 1
                ELSE CHOOSE i \in others : \A j \in others : i <= j
    IN  SubSeq(in, stop, Len(in))

\* <[u8]>::trim_ascii
trim_ascii(bytes) ==
    LET keep == { i \in 1..Len(bytes) : bytes[i] \notin Whitespace }
    IN  IF keep = {} THEN <<>>
        ELSE SubSeq(bytes, CHOOSE i \in keep : \A j \in keep : i <= j,
                           CHOOSE i \in keep : \A j \in keep : i >= j)

\* the terminus closure each caller passes to paragraph: visitor.rs 307
\* and 327 (footnote, heading), 350-353 (paragraph), 147, 154 and 161
terminus(fn, in) ==
    CASE fn \in {"footnote", "heading"} ->
            in # <<>> /\ in[1] \in Newlines
      [] fn = "paragraph" ->
            /\ in # <<>> /\ in[1] \in Newlines
            /\ Len(in) >= 2 /\ in[2] \in {"\n", "#"}
      [] fn = "strong" -> in # <<>> /\ in[1] = "*"
      [] fn = "em" -> in # <<>> /\ in[1] = "_"
      [] fn = "link" -> in # <<>> /\ in[1] = "]"

\* visitor.rs 247-256: the length of the run of text at the cursor: the
\* first byte, then all bytes up to a special byte or the terminus
text_stop(fn, in) ==
    LET stops == { i \in 2..Len(in) :
                     \/ in[i] \in {"!", "*", "_", Backtick, "["}
                     \/ terminus(fn, SubSeq(in, i, Len(in))) }
    IN  IF stops = {} THEN Len(in)
        ELSE (CHOOSE i \in stops : \A j \in stops : i <= j) - 1

\* visitor.rs 200-216: the length of the longest prefix without a byte of
\* the set
visitor_take_while(in, stops) ==
    LET hits == { i \in 1..Len(in) : in[i] \in stops }
    IN  IF hits = {} THEN Len(in)
        ELSE (CHOOSE i \in hits : \A j \in hits : i <= j) - 1

\* visitor.rs 317-318: the number of leading # bytes
heading_depth(in) ==
    LET others == { i \in 1..Len(in) : in[i] # "#" }
    IN  IF others = {} THEN Len(in)
        ELSE (CHOOSE i \in others : \A j \in others : i <= j) - 1

(***************************************************************************)
(* SimpleVisitor, visitor.rs 370-653.                                      *)
(***************************************************************************)
\* visitor.rs 74-90, pull.rs 7-22 and mdast.rs 89-102: each byte, the five
\* special ones as their entity
html_encode(bytes) ==
    [ i \in 1..Len(bytes) |->
        CASE bytes[i] = "&" -> "&amp;"
          [] bytes[i] = "<" -> "&lt;"
          [] bytes[i] = ">" -> "&gt;"
          [] bytes[i] = "\"" -> "&quot;"
          [] bytes[i] = "'" -> "&apos;"
          [] OTHER -> bytes[i] ]

\* visitor.rs 363-368, pull.rs 32-37: the fields of Frontmatter
FrontmatterFields == { "title", "date", "description" }

\* a line of YAML is one piece of the input: "key: a" is a mapping entry
\* with a string value, any other line is not
yaml_key(line) ==
    CASE line = "title: a" -> "title"
      [] line = "date: a" -> "date"
      [] line = "description: a" -> "description"
      [] OTHER -> ""

\* the lines of a block of YAML
yaml_lines(yaml) == SelectSeq(yaml, LAMBDA b : b \notin Newlines)

\* visitor.rs 440, pull.rs 145-146: serde_yaml::from_slice::<Frontmatter>
\* returns Ok: the block is a mapping, one entry to a line, in which each
\* field of Frontmatter is given once
Deserializes(yaml) ==
    LET lines == yaml_lines(yaml)
    IN  /\ \A i \in 1..Len(yaml) :
              yaml[i] \notin Newlines =>
                  (i = Len(yaml) \/ yaml[i + 1] \in Newlines)
        /\ \A i \in 1..Len(lines) : yaml_key(lines[i]) \in FrontmatterFields
        /\ \A f \in FrontmatterFields :
              Cardinality({ i \in 1..Len(lines) : yaml_key(lines[i]) = f }) = 1

\* the value serde_yaml::from_slice builds: Some(Frontmatter), every field
\* the string of its line
from_slice(yaml) == << [ f \in FrontmatterFields |-> "a" ] >>

\* visitor.rs 410-417
SimpleVisitor_new ==
    [frontmatter |-> <<>>, state |-> <<"Normal">>, output |-> <<>>,
     link_buffer |-> <<>>, footnotes |-> <<>>]

\* visitor.rs 398-400: self.state.last().copied().unwrap_or(State::Normal)
state(v) == IF v.state = <<>> THEN "Normal" ELSE v.state[Len(v.state)]

\* Vec::pop
pop(states) == IF states = <<>> THEN <<>> ELSE SubSeq(states, 1, Len(states) - 1)

\* visitor.rs 402-408: the buffer the state selects
buffer(st) ==
    CASE st = "Normal" -> "output"
      [] st = "Link" -> "link_buffer"
      [] st = "Footnote" -> "footnotes"

\* write!(self.buffer(), ...) and extend_from_slice on the selected buffer
write(v, bytes) ==
    LET b == buffer(state(v))
    IN  CASE b = "output" -> [v EXCEPT !.output = @ \o bytes]
          [] b = "link_buffer" -> [v EXCEPT !.link_buffer = @ \o bytes]
          [] b = "footnotes" -> [v EXCEPT !.footnotes = @ \o bytes]

\* visitor.rs 455-474
footnote_definition_enter(v, identifier) ==
    write([v EXCEPT !.state = Append(@, "Footnote")],
          <<"<p><span id=\"fn">> \o identifier \o <<"\">">> \o identifier
          \o <<".</span>", "<FootnoteRet href=\"#ref">> \o identifier
          \o <<"\"/>">>)

\* visitor.rs 476-481 without self.state.pop()
footnote_definition_exit_NoPop(v) == write(v, <<"</p>">>)

\* visitor.rs 476-481
footnote_definition_exit(v) ==
    LET w == write(v, <<"</p>">>)
    IN  [w EXCEPT !.state = pop(@)]

\* visitor.rs 483-499
footnote_reference(v, identifier) ==
    write(v, <<"<FootnoteRef href=\"#fn">> \o identifier
             \o <<"\" id=\"ref">> \o identifier \o <<"\">">> \o identifier
             \o <<"</FootnoteRef>">>)

\* visitor.rs 505-512: SimpleVisitor::inline_code
visitor_inline_code(v, bytes) ==
    write(v, <<"<code>">> \o html_encode(bytes) \o <<"</code>">>)

\* visitor.rs 531-538
emphasis_enter(v) == write(v, <<"<em>">>)

emphasis_exit(v) == write(v, <<"</em>">>)

\* visitor.rs 540-547
strong_enter(v) == write(v, <<"<strong>">>)

strong_exit(v) == write(v, <<"</strong>">>)

\* visitor.rs 554-564
image(v, alt, url) ==
    write(v, <<"<Image src=\"">> \o trim_ascii(url) \o <<"\" alt=\"">>
             \o trim_ascii(alt) \o <<"\" />">>)

\* the link's body goes where the text around it goes
link_enter_NoPush(v) == v

\* visitor.rs 566-569
link_enter(v) == [v EXCEPT !.state = Append(@, "Link")]

\* visitor.rs 571-587: the state is popped, the link goes to footnotes when
\* the state below is Footnote and to output otherwise, and append empties
\* link_buffer
link_exit(v, url) ==
    LET popped == pop(v.state)
        below == IF popped = <<>> THEN "Normal" ELSE popped[Len(popped)]
        link == <<"<Link href=\"">> \o trim_ascii(url) \o <<"\">">>
                \o v.link_buffer \o <<"</Link>">>
    IN  IF below = "Footnote"
        THEN [v EXCEPT !.state = popped, !.footnotes = @ \o link,
                       !.link_buffer = <<>>]
        ELSE [v EXCEPT !.state = popped, !.output = @ \o link,
                       !.link_buffer = <<>>]

\* visitor.rs 589-593
text(v, t) == write(v, t)

\* visitor.rs 595-626: SimpleVisitor::code, highlighted by syntect when the
\* language names one of its syntaxes (the code encoded in a pre element,
\* the spans of the highlighting left out), else encoded in a blockquote
visitor_code(v, value, lang, syntax) ==
    IF lang # <<>> /\ syntax
    THEN write(v, <<"<div class=\"codeblock\">", "<pre>">>
                  \o html_encode(value) \o <<"</pre>", "</div>">>)
    ELSE write(v, <<"<blockquote>">> \o html_encode(value)
                  \o <<"</blockquote>">>)

\* visitor.rs 637-644
heading_enter(v, level) == write(v, <<"<h" \o ToString(level) \o ">">>)

heading_exit(v, level) == write(v, <<"</h" \o ToString(level) \o ">">>)

\* visitor.rs 646-653
paragraph_enter(v) == write(v, <<"<p>">>)

paragraph_exit(v) == write(v, <<"</p>">>)

\* visitor.rs 423-434: SimpleVisitor::output
output(v) ==
    IF v.footnotes # <<>>
    THEN v.output \o <<"<Footnotes>">> \o v.footnotes \o <<"</Footnotes>">>
    ELSE v.output

(***************************************************************************)
(* The streaming parser, visitor.rs 145-358, one action per step of simple *)
(* and of paragraph.  A frame is one active call of paragraph.             *)
(***************************************************************************)
\* the inputs: up to MaxChunks pieces of markdown
Chunks ==
    { <<"a">>, <<"[">>, <<"]", "(", "u", ")">>, <<"[", "^", "1", "]", ":">>,
      <<"\n">>, <<"*">>, <<"_">>, <<"!", "[">>, <<"#">>, <<"-", "-", "-">>,
      <<"&">>, <<Backtick, Backtick, Backtick>> }

RECURSIVE Inputs(_)
Inputs(n) ==
    IF n = 0 THEN { <<>> }
    ELSE LET shorter == Inputs(n - 1)
         IN  shorter \cup { c \o s : c \in Chunks, s \in shorter }

InitVisitor(inputs) ==
    /\ source \in inputs
    /\ input = <<>>
    /\ frames = <<>>
    /\ visitor = SimpleVisitor_new
    /\ vpc = "idle"
    /\ result = <<>>
    /\ defs = <<>>

\* no markdown is compiled
IdleVisitor == InitVisitor({ <<>> })

Frame(fn, depth) == [fn |-> fn, depth |-> depth]

TopFrame == frames[Len(frames)]

PopFrame == SubSeq(frames, 1, Len(frames) - 1)

\* visitor.rs 162-171 and 182-191: the URL after "](", plain or in <...>
parse_url(in) ==
    IF starts_with(in, <<"<">>)
    THEN LET u == advance_to(skip(in, 1), ">")
         IN  [url |-> u.result, rest |-> advance_to(u.rest, ")").rest]
    ELSE LET u == advance_to(in, ")")
         IN  [url |-> u.result, rest |-> u.rest]

\* visitor.rs 288-316, 324-334: the block starts that simple tries before
\* a heading and a paragraph
other_block(in) ==
    \/ starts_with(in, <<"-", "-", "-">>)
    \/ starts_with(in, <<Backtick, Backtick, Backtick>>)
    \/ starts_with(in, <<"$", "$">>)
    \/ starts_with(in, <<"<">>)

\* visitor.rs 410-419: SimpleVisitor::new builds the visitor and calls simple
New ==
    /\ vpc = "idle"
    /\ visitor' = SimpleVisitor_new
    /\ input' = source
    /\ vpc' = "running"
    /\ UNCHANGED <<source, frames, result, defs>>
    /\ UNCHANGED notVisitor

\* simple is at the top of its loop
AtBlock == vpc = "running" /\ frames = <<>> /\ input # <<>>

\* visitor.rs 275-279: a footnote definition starts
SimpleFootnote ==
    /\ AtBlock
    /\ starts_with(input, <<"[", "^">>)
    /\ LET ident == advance_to(skip(input, 2), "]")
       IN  /\ visitor' = footnote_definition_enter(visitor, ident.result)
           /\ input' = skip(ident.rest, 2)
           /\ defs' = Append(defs, ident.result)
    /\ frames' = <<Frame("footnote", 0)>>
    /\ UNCHANGED <<source, vpc, result>>
    /\ UNCHANGED notVisitor

\* the step of simple at a fence were the error of visitor.yaml dropped
SimpleYaml_IgnoreError ==
    /\ AtBlock
    /\ ~starts_with(input, <<"[", "^">>)
    /\ starts_with(input, <<"-", "-", "-">>)
    /\ LET yaml == advance_to_sequence(skip(input, 3), <<"-", "-", "-">>)
       IN  /\ visitor' = IF Deserializes(yaml.result)
                         THEN [visitor EXCEPT !.frontmatter = from_slice(yaml.result)]
                         ELSE visitor
           /\ input' = skip_newlines(skip(yaml.rest, 3))
    /\ UNCHANGED <<source, frames, vpc, result, defs>>
    /\ UNCHANGED notVisitor

\* visitor.rs 288-293, 439-444: a --- fence starts a block of YAML, which
\* runs to the next fence; visitor.yaml deserializes it and its error is
\* the error of simple and of SimpleVisitor::new, which drops the visitor
SimpleYaml ==
    /\ AtBlock
    /\ ~starts_with(input, <<"[", "^">>)
    /\ starts_with(input, <<"-", "-", "-">>)
    /\ LET yaml == advance_to_sequence(skip(input, 3), <<"-", "-", "-">>)
       IN  IF Deserializes(yaml.result)
           THEN /\ visitor' = [visitor EXCEPT !.frontmatter = from_slice(yaml.result)]
                /\ input' = skip_newlines(skip(yaml.rest, 3))
                /\ vpc' = vpc
           ELSE /\ visitor' = visitor
                /\ input' = skip(yaml.rest, 3)
                /\ vpc' = "error"
    /\ UNCHANGED <<source, frames, result, defs>>
    /\ UNCHANGED notVisitor

\* visitor.rs 294-309: a fence of three backticks starts a block of code:
\* the language is what follows up to a blank or a line end, the code runs
\* to the next fence or to the end of the input
SimpleCode ==
    /\ AtBlock
    /\ ~starts_with(input, <<"[", "^">>)
    /\ ~starts_with(input, <<"-", "-", "-">>)
    /\ starts_with(input, <<Backtick, Backtick, Backtick>>)
    /\ LET after == skip(input, 3)
           stop == visitor_take_while(after, {" ", "\n", "\r"})
           lang == SubSeq(after, 1, stop)
           value == advance_to_sequence(skip_newlines(skip(after, stop)),
                                        <<Backtick, Backtick, Backtick>>)
       IN  /\ \E syntax \in BOOLEAN :
                 visitor' = visitor_code(visitor, value.result, lang, syntax)
           /\ input' = skip_newlines(skip(value.rest, 3))
    /\ UNCHANGED <<source, frames, vpc, result, defs>>
    /\ UNCHANGED notVisitor

\* visitor.rs 317-320: a heading starts; depth as u8
SimpleHeading ==
    /\ AtBlock
    /\ ~starts_with(input, <<"[", "^">>)
    /\ ~other_block(input)
    /\ starts_with(input, <<"#">>)
    /\ LET depth == heading_depth(input) % 256
       IN  /\ visitor' = heading_enter(visitor, depth)
           /\ frames' = <<Frame("heading", depth)>>
    /\ input' = skip(input, heading_depth(input))
    /\ UNCHANGED <<source, vpc, result, defs>>
    /\ UNCHANGED notVisitor

\* visitor.rs 341-342: anything else starts a paragraph
SimpleParagraph ==
    /\ AtBlock
    /\ ~starts_with(input, <<"[", "^">>)
    /\ ~other_block(input)
    /\ ~starts_with(input, <<"#">>)
    /\ visitor' = paragraph_enter(visitor)
    /\ frames' = <<Frame("paragraph", 0)>>
    /\ UNCHANGED <<source, input, vpc, result, defs>>
    /\ UNCHANGED notVisitor

\* visitor.rs 269 and 357, 419: the input is consumed, new returns Ok
SimpleDone ==
    /\ vpc = "running"
    /\ frames = <<>>
    /\ input = <<>>
    /\ vpc' = "done"
    /\ UNCHANGED <<source, input, frames, visitor, result, defs>>
    /\ UNCHANGED notVisitor

\* visitor.rs 425-433: SimpleVisitor::output consumes the visitor
Output ==
    /\ vpc = "done"
    /\ result' = output(visitor)
    /\ vpc' = "output"
    /\ UNCHANGED <<source, input, frames, visitor, defs>>
    /\ UNCHANGED notVisitor

\* visitor.rs 226-229: paragraph returns to its caller, at the end of the
\* input or where the caller's terminus holds
Returns(fn) ==
    /\ vpc = "running"
    /\ frames # <<>>
    /\ TopFrame.fn = fn
    /\ (input = <<>> \/ terminus(fn, input))

\* visitor.rs 285-287
FootnoteExit ==
    /\ Returns("footnote")
    /\ visitor' = footnote_definition_exit(visitor)
    /\ input' = skip_newlines(input)
    /\ frames' = PopFrame
    /\ UNCHANGED <<source, vpc, result, defs>>
    /\ UNCHANGED notVisitor

\* visitor.rs 326-327
HeadingExit ==
    /\ Returns("heading")
    /\ visitor' = heading_exit(visitor, TopFrame.depth)
    /\ input' = skip_newlines(input)
    /\ frames' = PopFrame
    /\ UNCHANGED <<source, vpc, result, defs>>
    /\ UNCHANGED notVisitor

\* visitor.rs 354-355
ParagraphExit ==
    /\ Returns("paragraph")
    /\ visitor' = paragraph_exit(visitor)
    /\ input' = skip_newlines(input)
    /\ frames' = PopFrame
    /\ UNCHANGED <<source, vpc, result, defs>>
    /\ UNCHANGED notVisitor

\* visitor.rs 148-149
StrongExit ==
    /\ Returns("strong")
    /\ input' = skip(input, 1)
    /\ visitor' = strong_exit(visitor)
    /\ frames' = PopFrame
    /\ UNCHANGED <<source, vpc, result, defs>>
    /\ UNCHANGED notVisitor

\* visitor.rs 155-156: parse_em calls strong_exit
EmExit ==
    /\ Returns("em")
    /\ input' = skip(input, 1)
    /\ visitor' = strong_exit(visitor)
    /\ frames' = PopFrame
    /\ UNCHANGED <<source, vpc, result, defs>>
    /\ UNCHANGED notVisitor

\* visitor.rs 162-175
LinkExit ==
    /\ Returns("link")
    /\ LET u == parse_url(skip(input, 2))
       IN  /\ visitor' = link_exit(visitor, u.url)
           /\ input' = skip(u.rest, 1)
    /\ frames' = PopFrame
    /\ UNCHANGED <<source, vpc, result, defs>>
    /\ UNCHANGED notVisitor

\* visitor.rs 225-230: paragraph is at the top of its loop and goes on
InParagraph ==
    /\ vpc = "running"
    /\ frames # <<>>
    /\ input # <<>>
    /\ ~terminus(TopFrame.fn, input)

\* visitor.rs 231-232 and 178-198
InlineImage ==
    /\ InParagraph
    /\ starts_with(input, <<"!", "[">>)
    /\ LET alt == advance_to(skip(input, 2), "]")
           u == parse_url(skip(alt.rest, 2))
       IN  /\ visitor' = image(visitor, alt.result, u.url)
           /\ input' = skip(u.rest, 1)
    /\ UNCHANGED <<source, frames, vpc, result, defs>>
    /\ UNCHANGED notVisitor

\* visitor.rs 233-234 and 146-147
InlineStrong ==
    /\ InParagraph
    /\ starts_with(input, <<"*">>)
    /\ visitor' = strong_enter(visitor)
    /\ input' = skip(input, 1)
    /\ frames' = Append(frames, Frame("strong", 0))
    /\ UNCHANGED <<source, vpc, result, defs>>
    /\ UNCHANGED notVisitor

\* visitor.rs 235-236 and 153-154: parse_em calls strong_enter
InlineEm ==
    /\ InParagraph
    /\ starts_with(input, <<"_">>)
    /\ visitor' = strong_enter(visitor)
    /\ input' = skip(input, 1)
    /\ frames' = Append(frames, Frame("em", 0))
    /\ UNCHANGED <<source, vpc, result, defs>>
    /\ UNCHANGED notVisitor

\* visitor.rs 237-240
InlineFootnoteReference ==
    /\ InParagraph
    /\ starts_with(input, <<"[", "^">>)
    /\ LET ident == advance_to(skip(input, 2), "]")
       IN  /\ visitor' = footnote_reference(visitor, ident.result)
           /\ input' = skip(ident.rest, 1)
    /\ UNCHANGED <<source, frames, vpc, result, defs>>
    /\ UNCHANGED notVisitor

\* visitor.rs 241-242 and 160-161
InlineLink ==
    /\ InParagraph
    /\ starts_with(input, <<"[">>)
    /\ ~starts_with(input, <<"[", "^">>)
    /\ visitor' = link_enter(visitor)
    /\ input' = skip(input, 1)
    /\ frames' = Append(frames, Frame("link", 0))
    /\ UNCHANGED <<source, vpc, result, defs>>
    /\ UNCHANGED notVisitor

\* visitor.rs 243-246: inline code runs to the next backtick or, without
\* one, to the end of the input
InlineCode ==
    /\ InParagraph
    /\ starts_with(input, <<Backtick>>)
    /\ LET value == advance_to(skip(input, 1), Backtick)
       IN  /\ visitor' = visitor_inline_code(visitor, value.result)
           /\ input' = skip(value.rest, 1)
    /\ UNCHANGED <<source, frames, vpc, result, defs>>
    /\ UNCHANGED notVisitor

\* visitor.rs 246-259: a run of text
InlineText ==
    /\ InParagraph
    /\ ~starts_with(input, <<"!", "[">>)
    /\ input[1] \notin {"*", "_", "[", Backtick}
    /\ LET stop == text_stop(TopFrame.fn, input)
       IN  /\ visitor' = text(visitor, SubSeq(input, 1, stop))
           /\ input' = SubSeq(input, stop + 1, Len(input))
    /\ UNCHANGED <<source, frames, vpc, result, defs>>
    /\ UNCHANGED notVisitor

NextVisitor ==
    \/ New
    \/ SimpleFootnote
    \/ SimpleYaml
    \/ SimpleCode
    \/ SimpleHeading
    \/ SimpleParagraph
    \/ SimpleDone
    \/ Output
    \/ FootnoteExit
    \/ HeadingExit
    \/ ParagraphExit
    \/ StrongExit
    \/ EmExit
    \/ LinkExit
    \/ InlineImage
    \/ InlineStrong
    \/ InlineEm
    \/ InlineFootnoteReference
    \/ InlineLink
    \/ InlineCode
    \/ InlineText

(***************************************************************************)
(* markcomp/src/pull.rs: Writer::new on the events pulldown_cmark yields.  *)
(***************************************************************************)

\* an event of the parser: Start(tag) and End(tag) name their tag, Text
\* carries its bytes
Event(kind, tag, bytes) == [kind |-> kind, tag |-> tag, bytes |-> bytes]

\* pull.rs 216-222
Writer_new ==
    [state |-> "Normal", frontmatter |-> <<>>, output |-> <<>>,
     footnotes |-> <<>>]

InitPull(streams) ==
    \E events \in streams :
        pull = [events |-> events, writer |-> Writer_new, code |-> <<>>,
                pc |-> "idle", result |-> <<>>]

\* no event stream is compiled
IdlePull == InitPull({ <<>> })

\* pull.rs 215-224: Writer::new builds the writer and calls parse
PullNew ==
    /\ pull.pc = "idle"
    /\ pull' = [pull EXCEPT !.pc = "running", !.writer = Writer_new, !.code = <<>>]
    /\ UNCHANGED notPull

\* the loop of parse is at an event of the kind and tag
AtEvent(kind, tag) ==
    /\ pull.pc = "running"
    /\ pull.events # <<>>
    /\ Head(pull.events).kind = kind
    /\ Head(pull.events).tag = tag

\* pull.rs 102-106: code = Some(Code::Yaml(Vec::new()))
PullStartMetadata ==
    /\ AtEvent("Start", "MetadataBlock")
    /\ pull' = [pull EXCEPT !.events = Tail(@), !.code = << <<>> >>]
    /\ UNCHANGED notPull

\* pull.rs 183-188: text goes to the YAML being collected, else encoded
\* to the output
PullText ==
    /\ AtEvent("Text", "")
    /\ LET bytes == Head(pull.events).bytes
       IN  pull' = IF pull.code # <<>>
                   THEN [pull EXCEPT !.events = Tail(@),
                                     !.code = << @[1] \o bytes >>]
                   ELSE [pull EXCEPT !.events = Tail(@),
                                     !.writer.output = @ \o html_encode(bytes)]
    /\ UNCHANGED notPull

\* pull.rs 143-151: the block ends, code.take() is deserialized; the error
\* is the error of parse and of Writer::new, which drops the writer
PullEndMetadata ==
    /\ AtEvent("End", "MetadataBlock")
    /\ pull' = IF pull.code = <<>>
               THEN [pull EXCEPT !.events = Tail(@)]
               ELSE IF Deserializes(pull.code[1])
               THEN [pull EXCEPT !.events = Tail(@), !.code = <<>>,
                                 !.writer.frontmatter = from_slice(pull.code[1])]
               ELSE [pull EXCEPT !.events = Tail(@), !.code = <<>>,
                                 !.pc = "error"]
    /\ UNCHANGED notPull

\* pull.rs 108 and 152
PullParagraph ==
    /\ \/ AtEvent("Start", "Paragraph")
       \/ AtEvent("End", "Paragraph")
    /\ pull' = [pull EXCEPT !.events = Tail(@),
                            !.writer.output =
                                @ \o IF Head(pull.events).kind = "Start"
                                     THEN <<"<p>">> ELSE <<"</p>">>]
    /\ UNCHANGED notPull

\* pull.rs 212 and 224: the events are consumed, new returns Ok
PullDone ==
    /\ pull.pc = "running"
    /\ pull.events = <<>>
    /\ pull' = [pull EXCEPT !.pc = "done"]
    /\ UNCHANGED notPull

\* pull.rs 228-236: Writer::output consumes the writer
PullOutput ==
    /\ pull.pc = "done"
    /\ pull' = [pull EXCEPT
                   !.pc = "output",
                   !.result = IF pull.writer.footnotes # <<>>
                              THEN pull.writer.output \o <<"<Footnotes>">>
                                       \o pull.writer.footnotes
                                       \o <<"</Footnotes>">>
                              ELSE pull.writer.output]
    /\ UNCHANGED notPull

NextPull ==
    \/ PullNew
    \/ PullStartMetadata
    \/ PullText
    \/ PullEndMetadata
    \/ PullParagraph
    \/ PullDone
    \/ PullOutput

(***************************************************************************)
(* Documents that open with a block of frontmatter, for both compilers.    *)
(***************************************************************************)
\* the lines a block is made of: the three fields and one line of prose
YamlLines == { "title: a", "date: a", "description: a", "a" }

\* up to MaxYamlLines different lines, in any order
YamlBodies ==
    { b \in SeqsUpTo(YamlLines, MaxYamlLines) :
        \A i, j \in 1..Len(b) : i # j => b[i] # b[j] }

\* each line with its line ending
RECURSIVE WithNewlines(_)
WithNewlines(lines) ==
    IF lines = <<>> THEN <<>>
    ELSE <<Head(lines), "\n">> \o WithNewlines(Tail(lines))

\* a document: the block, closed by a fence or left open, and what follows
FrontmatterCases ==
    { [lines |-> b, closed |-> c, rest |-> r] :
        b \in YamlBodies, c \in BOOLEAN, r \in Inputs(MaxRest) }

\* the bytes of the document
markdown(c) ==
    <<"-", "-", "-", "\n">> \o WithNewlines(c.lines)
        \o (IF c.closed THEN <<"-", "-", "-", "\n">> ELSE <<>>) \o c.rest

\* pull.rs 87-95, ENABLE_YAML_STYLE_METADATA_BLOCKS: the positions at which
\* a line that is a fence starts, after a first line that is a fence
fence_lines(bytes) ==
    { i \in 5..(Len(bytes) - 2) :
        /\ SubSeq(bytes, 1, 4) = <<"-", "-", "-", "\n">>
        /\ bytes[i - 1] = "\n"
        /\ SubSeq(bytes, i, i + 2) = <<"-", "-", "-">>
        /\ (i + 2 = Len(bytes) \/ bytes[i + 3] = "\n") }

\* the events of the document: a block closed by a fence line is a metadata
\* block whose text is the lines between the fences, the rest is a
\* paragraph
events(bytes) ==
    LET paragraph(t) ==
            IF t = <<>> THEN <<>>
            ELSE << Event("Start", "Paragraph", <<>>), Event("Text", "", t),
                    Event("End", "Paragraph", <<>>) >>
        end == Min(fence_lines(bytes))
    IN  IF fence_lines(bytes) # {}
        THEN << Event("Start", "MetadataBlock", <<>>),
                Event("Text", "", SubSeq(bytes, 5, end - 1)),
                Event("End", "MetadataBlock", <<>>) >>
             \o paragraph(skip_newlines(SubSeq(bytes, end + 3, Len(bytes))))
        ELSE paragraph(bytes)

(***************************************************************************)
(* wincomp/src/parse.rs: the markup parser.  A source text is a sequence   *)
(* of one-character strings; a parser returns Ok with a value and the rest *)
(* of the input, or an error that is Backtrack or Cut.                     *)
(***************************************************************************)
Ok(v, rest) == [r |-> "Ok", v |-> v, rest |-> rest]

ErrMode(mode, in) == [r |-> mode, v |-> <<>>, rest |-> in]

\* char::is_alphabetic and the digits, over the characters of the inputs
Alphabetic ==
    { "a", "b", "c", "h", "i", "k", "p", "r", "s", "t", "v", "x", "y" }

Numeric == { "1" }

\* the nodes the parser builds: names and text are slices of the source
Node_Element(name, attrs, kids) ==
    [kind |-> "Element", name |-> name, attributes |-> attrs,
     children |-> kids, text |-> <<>>]

Node_Text(t) ==
    [kind |-> "Text", name |-> <<>>, attributes |-> <<>>, children |-> <<>>,
     text |-> t]

Node_Comment(t) ==
    [kind |-> "Comment", name |-> <<>>, attributes |-> <<>>,
     children |-> <<>>, text |-> t]

\* the parser k runs on an Ok result, an error is handed on: the ? of Rust
and_then(res, k(_)) == IF res.r = "Ok" THEN k(res) ELSE res

\* a value under a name
Let(v, k(_)) == k(v)

\* the length of the longest prefix of characters of the set
take_while(in, set) ==
    Min({ i \in 1..(Len(in) + 1) : i = Len(in) + 1 \/ in[i] \notin set }) - 1

\* the first n characters as the value
split(in, n) == Ok(SubSeq(in, 1, n), SubSeq(in, n + 1, Len(in)))

\* winnow::ascii::multispace0: the input after its leading white space
multispace0(in) ==
    SubSeq(in, take_while(in, { " ", "\t", "\n", "\r" }) + 1, Len(in))

\* a literal: the input starts with it
literal(lit, in) ==
    IF Len(in) >= Len(lit) /\ SubSeq(in, 1, Len(lit)) = lit
    THEN Ok(lit, SubSeq(in, Len(lit) + 1, Len(in)))
    ELSE ErrMode("Backtrack", in)

\* parse.rs 11-16
identifier(in) ==
    IF in = <<>> \/ in[1] \notin Alphabetic
    THEN ErrMode("Backtrack", in)
    ELSE split(in, take_while(in, Alphabetic \cup Numeric \cup { "_", "-" }))

\* parse.rs 18-39: to the first double quote not preceded by a backslash;
\* without one the error is Cut
parse_string(in) ==
    IF in = <<>> \/ in[1] # "\""
    THEN ErrMode("Backtrack", in)
    ELSE Let({ i \in 2..Len(in) : in[i] = "\"" /\ in[i - 1] # "\\" },
             LAMBDA closes :
                 IF closes = {} THEN ErrMode("Cut", in)
                 ELSE Let(Min(closes),
                          LAMBDA m : Ok(SubSeq(in, 2, m - 1),
                                        SubSeq(in, m + 1, Len(in)))))

\* parse.rs 41-48: the value is Some(string), <<string>>, or None, <<>>;
\* opt gives None and takes nothing when "=" or the opening quote is missing
attribute(in) ==
    and_then(identifier(in), LAMBDA name :
        Let(and_then(literal(<<"=">>, multispace0(name.rest)),
                     LAMBDA equals : parse_string(multispace0(equals.rest))),
            LAMBDA value :
                IF value.r = "Ok"
                THEN Ok(Attribute(name.v, <<value.v>>), value.rest)
                ELSE IF value.r = "Backtrack"
                THEN Ok(Attribute(name.v, <<>>), name.rest)
                ELSE value))

\* parse.rs 116: repeat(0.., preceded(multispace0, attribute))
RECURSIVE attributes(_)
attributes(in) ==
    Let(attribute(multispace0(in)), LAMBDA a :
        IF a.r = "Backtrack" THEN Ok(<<>>, in)
        ELSE IF a.r = "Cut" THEN a
        ELSE and_then(attributes(a.rest),
                      LAMBDA more : Ok(<<a.v>> \o more.v, more.rest)))

\* parse.rs 74-80
closing_tag(name, in) ==
    and_then(literal(<<"<", "/">>, in), LAMBDA open :
        and_then(literal(name, multispace0(open.rest)), LAMBDA tag :
            and_then(literal(<<">">>, multispace0(tag.rest)), LAMBDA close :
                Ok(<<>>, close.rest))))

\* parse.rs 82-110: the ending pattern is tried at every hint character, the
\* first success ends the text; without one the error is Cut
parse_advance_to(parser(_), hint, in) ==
    Let({ i \in 1..Len(in) :
            in[i] = hint /\ parser(SubSeq(in, i, Len(in))).r = "Ok" },
        LAMBDA ends :
            IF ends = {} THEN ErrMode("Cut", in)
            ELSE Let(Min(ends),
                     LAMBDA i : Ok(SubSeq(in, 1, i - 1),
                                   parser(SubSeq(in, i, Len(in))).rest)))

RawTextNames == { <<"s", "c", "r", "i", "p", "t">>, <<"s", "t", "y", "l", "e">> }

VoidNames ==
    { <<"h", "r">>, <<"i", "n", "p", "u", "t">>, <<"l", "i", "n", "k">>,
      <<"i", "m", "g">> }

RECURSIVE parse_node(_), parse_nodes(_), content(_, _, _), element(_)

\* parse.rs 50-68: at "<" a comment or an element, else the text up to the
\* next "<", which take_until(1.., '<') must find
parse_node(in) ==
    IF in = <<>> THEN ErrMode("Backtrack", in)
    ELSE IF in[1] # "<"
    THEN Let({ i \in 1..Len(in) : in[i] = "<" }, LAMBDA stops :
             IF stops = {} THEN ErrMode("Backtrack", in)
             ELSE Let(Min(stops),
                      LAMBDA i : Ok(Node_Text(SubSeq(in, 1, i - 1)),
                                    SubSeq(in, i, Len(in)))))
    ELSE IF literal(<<"<", "!", "-", "-">>, in).r = "Ok"
    THEN and_then(parse_advance_to(LAMBDA i : literal(<<"-", "-", ">">>, i),
                                   "-", SubSeq(in, 5, Len(in))),
                  LAMBDA c : Ok(Node_Comment(c.v), c.rest))
    ELSE element(in)

\* parse.rs 70-72: repeat(0.., node) ends at the first Backtrack and hands
\* a Cut on
parse_nodes(in) ==
    Let(parse_node(in), LAMBDA n :
        IF n.r = "Backtrack" THEN Ok(<<>>, in)
        ELSE IF n.r = "Cut" THEN n
        ELSE and_then(parse_nodes(n.rest),
                      LAMBDA more : Ok(<<n.v>> \o more.v, more.rest)))

\* the content were script and style parsed like any other element
content_NoRawText(name, attrs, in) ==
    IF name \in VoidNames
    THEN Ok(Node_Element(name, attrs, <<>>), in)
    ELSE and_then(parse_nodes(in), LAMBDA inner :
             Let(closing_tag(name, multispace0(inner.rest)), LAMBDA end :
                 IF end.r # "Ok" THEN ErrMode("Cut", inner.rest)
                 ELSE Ok(Node_Element(name, attrs, inner.v), end.rest)))

\* the content were the missing closing tag an error that backtracks
content_NoCut(name, attrs, in) ==
    IF name \in RawTextNames
    THEN and_then(parse_advance_to(LAMBDA i : closing_tag(name, i), "<", in),
                  LAMBDA raw :
                      Ok(Node_Element(name, attrs, <<Node_Text(raw.v)>>),
                         raw.rest))
    ELSE IF name \in VoidNames
    THEN Ok(Node_Element(name, attrs, <<>>), in)
    ELSE and_then(parse_nodes(in), LAMBDA inner :
             and_then(closing_tag(name, multispace0(inner.rest)), LAMBDA end :
                 Ok(Node_Element(name, attrs, inner.v), end.rest)))

\* parse.rs 136-153: the content of an element opened with ">": raw text
\* to the closing tag, nothing for a void element, else nodes and a
\* closing tag whose absence is a Cut
content(name, attrs, in) ==
    IF name \in RawTextNames
    THEN and_then(parse_advance_to(LAMBDA i : closing_tag(name, i), "<", in),
                  LAMBDA raw :
                      Ok(Node_Element(name, attrs, <<Node_Text(raw.v)>>),
                         raw.rest))
    ELSE IF name \in VoidNames
    THEN Ok(Node_Element(name, attrs, <<>>), in)
    ELSE and_then(parse_nodes(in), LAMBDA inner :
             Let(closing_tag(name, multispace0(inner.rest)), LAMBDA end :
                 IF end.r # "Ok" THEN ErrMode("Cut", inner.rest)
                 ELSE Ok(Node_Element(name, attrs, inner.v), end.rest)))

\* parse.rs 112-135
element(in) ==
    and_then(literal(<<"<">>, in), LAMBDA open :
        and_then(identifier(open.rest), LAMBDA name :
            and_then(attributes(name.rest), LAMBDA attrs :
                Let(multispace0(attrs.rest), LAMBDA at :
                    IF literal(<<"/", ">">>, at).r = "Ok"
                    THEN Ok(Node_Element(name.v, attrs.v, <<>>),
                            SubSeq(at, 3, Len(at)))
                    ELSE IF literal(<<">">>, at).r = "Ok"
                    THEN content(name.v, attrs.v, Tail(at))
                    ELSE ErrMode("Backtrack", in)))))

\* Parser::parse: the parser must succeed and leave nothing of the input
parse(res) ==
    IF res.r = "Ok" /\ res.rest = <<>>
    THEN [ok |-> TRUE, error |-> "", v |-> res.v]
    ELSE [ok |-> FALSE, error |-> IF res.r = "Ok" THEN "Eof" ELSE res.r,
          v |-> <<>>]

\* lib.rs 29-33: Document::new
Document_new(src) == parse(parse_nodes(src))

\* lib.rs 21-25: Component::new
Component_new(src) ==
    LET e == element(multispace0(src))
    IN  parse(IF e.r = "Ok" THEN Ok(e.v, multispace0(e.rest)) ELSE e)

\* lib.rs 196-204: the attributes of an element
RECURSIVE write_attributes(_)
write_attributes(as) ==
    IF as = <<>> THEN <<>>
    ELSE <<" ">> \o Head(as).name
         \o (IF Head(as).value # <<>>
             THEN <<"=", "\"">> \o Head(as).value[1] \o <<"\"">>
             ELSE <<>>)
         \o write_attributes(Tail(as))

\* lib.rs 186-226: write_element
RECURSIVE write_element(_)
write_element(ns) ==
    IF ns = <<>> THEN <<>>
    ELSE (CASE Head(ns).kind = "Element" ->
                 <<"<">> \o Head(ns).name \o write_attributes(Head(ns).attributes)
                 \o (IF Head(ns).children = <<>> THEN <<"/", ">">>
                     ELSE <<">">> \o write_element(Head(ns).children)
                          \o <<"<", "/">> \o Head(ns).name \o <<">">>)
            [] Head(ns).kind = "Text" -> Head(ns).text
            [] OTHER -> <<>>)
         \o write_element(Tail(ns))

\* lib.rs 181-184: Document::write
Document_write(ns) ==
    << "<", "!", "D", "O", "C", "T", "Y", "P", "E", " ", "h", "t", "m", "l",
       ">" >> \o write_element(ns)

(***************************************************************************)
(* One source text through Document::new, Document::write and Document::new *)
(* again, and through Component::new.                                      *)
(***************************************************************************)
\* the pieces the source texts are made of
Parts ==
    { <<"<", "a", ">">>, <<"<", "/", "a", ">">>, <<"<", "b", "/", ">">>,
      <<"x">>, <<"<">>, <<" ">>, <<"<", "!", "-", "-">>, <<"-", "-", ">">>,
      <<"<", "s", "c", "r", "i", "p", "t", ">">>,
      <<"<", "/", "s", "c", "r", "i", "p", "t", ">">>,
      <<"<", "/", " ", "s", "c", "r", "i", "p", "t", " ", ">">>,
      <<"<", "h", "r", ">">>,
      <<"<", "a", " ", "k", "=", "\"", "v", "\"", " ", "y", ">">> }

RECURSIVE Sources(_)
Sources(n) ==
    IF n = 0 THEN { <<>> }
    ELSE LET shorter == Sources(n - 1)
         IN  shorter \cup { part \o src : part \in Parts, src \in shorter }

\* not yet parsed
Pending == [ok |-> FALSE, error |-> "pending", v |-> <<>>]

InitMarkup(sources) ==
    \E src \in sources :
        markup = [source |-> src, pc |-> "idle", document |-> Pending,
                  component |-> Pending, written |-> <<>>, reparsed |-> Pending]

\* nothing is parsed as markup
IdleMarkup == InitMarkup({ <<>> })

\* lib.rs 29-33
DocumentNew ==
    /\ markup.pc = "idle"
    /\ LET doc == Document_new(markup.source)
       IN  markup' = [markup EXCEPT !.document = doc,
                                    !.pc = IF doc.ok THEN "parsed" ELSE "error"]
    /\ UNCHANGED notMarkup

\* lib.rs 21-25
ComponentNew ==
    /\ markup.component = Pending
    /\ markup' = [markup EXCEPT !.component = Component_new(markup.source)]
    /\ UNCHANGED notMarkup

\* lib.rs 181-184: the tree, not modified, is written
DocumentWrite ==
    /\ markup.pc = "parsed"
    /\ markup' = [markup EXCEPT !.written = Document_write(markup.document.v),
                                !.pc = "written"]
    /\ UNCHANGED notMarkup

\* lib.rs 29-33 on the text Document::write produced
DocumentReparse ==
    /\ markup.pc = "written"
    /\ markup' = [markup EXCEPT !.reparsed = Document_new(markup.written),
                                !.pc = "reparsed"]
    /\ UNCHANGED notMarkup

NextMarkup ==
    \/ DocumentNew
    \/ ComponentNew
    \/ DocumentWrite
    \/ DocumentReparse

(***************************************************************************)
(* markcomp/src/mdast.rs: the combinator markdown parser, its inline part. *)
(* The inputs hold none of the characters [ ! ~ $, so that of the inline    *)
(* nodes only strong, emphasis and inline code are entered.  On an error   *)
(* the input stays where the failing parser left it: rest is that place.   *)
(***************************************************************************)
mdast_Text(t) == [kind |-> "Text", value |-> t, children |-> <<>>]

mdast_InlineCode(v) == [kind |-> "InlineCode", value |-> v, children |-> <<>>]

mdast_Strong(kids) == [kind |-> "Strong", value |-> <<>>, children |-> kids]

mdast_Emphasis(kids) == [kind |-> "Emphasis", value |-> <<>>, children |-> kids]

\* winnow::token::take_until(0.., c): the input up to the first c, which
\* must be there
take_until0(c, in) ==
    IF \E i \in 1..Len(in) : in[i] = c
    THEN split(in, take_while(in, { in[i] : i \in 1..Len(in) } \ { c }))
    ELSE ErrMode("Backtrack", in)

\* the value and the rest of another result
map(res, f(_)) == IF res.r = "Ok" THEN Ok(f(res.v), res.rest) ELSE res

\* mdast.rs 228-234
inline_code(in) ==
    and_then(literal(<<Backtick>>, in), LAMBDA open :
    and_then(take_until0(Backtick, open.rest), LAMBDA value :
    and_then(literal(<<Backtick>>, value.rest), LAMBDA close :
        Ok(value.v, close.rest))))

\* mdast.rs 434: the characters at which paragraph tries an inline node
InlineStart == { "*", "[", "!", "~", "$", Backtick, "_" }

\* mdast.rs 454-464: no node is an error
paragraph_end(ns, in) ==
    IF ns = <<>> THEN ErrMode("Backtrack", in) ELSE Ok(ns, in)

\* the text before the character at i, when there is one
text_before(string, i) ==
    IF i # 1 THEN << mdast_Text(SubSeq(string, 1, i - 1)) >> ELSE <<>>

RECURSIVE strong(_), emphasis(_), inline_node(_), paragraph(_, _, _, _, _)

\* mdast.rs 366-370 without the closing delimiter
strong_OpenOnly(in) ==
    and_then(literal(<<"*", "*">>, in), LAMBDA open :
        paragraph({ "*" }, open.rest, 1, <<>>, open.rest))

\* mdast.rs 366-370: delimited("**", paragraph('*'), "**")
strong(in) ==
    and_then(literal(<<"*", "*">>, in), LAMBDA open :
    and_then(paragraph({ "*" }, open.rest, 1, <<>>, open.rest), LAMBDA body :
    and_then(literal(<<"*", "*">>, body.rest), LAMBDA close :
        Ok(body.v, close.rest))))

\* mdast.rs 372-374: delimited('_', paragraph('_'), '_')
emphasis(in) ==
    and_then(literal(<<"_">>, in), LAMBDA open :
    and_then(paragraph({ "_" }, open.rest, 1, <<>>, open.rest), LAMBDA body :
    and_then(literal(<<"_">>, body.rest), LAMBDA close :
        Ok(body.v, close.rest))))

\* mdast.rs 376-388: dispatch on the first character, which is not consumed
inline_node(in) ==
    IF in = <<>> THEN ErrMode("Backtrack", in)
    ELSE CASE in[1] = "*" -> map(strong(in), mdast_Strong)
           [] in[1] = "_" -> map(emphasis(in), mdast_Emphasis)
           [] in[1] = Backtick -> map(inline_code(in), mdast_InlineCode)
           [] OTHER -> ErrMode("Backtrack", in)

\* mdast.rs 409-465: the loop over the characters of string, at character i,
\* with the nodes pushed so far and the place of the input
paragraph(termination, string, i, ns, in) ==
    IF i > Len(string)
    THEN paragraph_end(IF string # <<>> THEN Append(ns, mdast_Text(string))
                       ELSE ns, in)
    ELSE IF string[i] \in termination
    THEN (IF i # 1
          THEN paragraph_end(ns \o text_before(string, i),
                             SubSeq(string, i, Len(string)))
          ELSE paragraph_end(ns, in))
    ELSE IF string[i] \in InlineStart
    THEN Let(inline_node(SubSeq(string, i, Len(string))), LAMBDA node :
            CASE node.r = "Ok" ->
                   paragraph(termination, node.rest, 1,
                             Append(ns \o text_before(string, i), node.v),
                             node.rest)
              [] node.r = "Cut" -> node
              [] OTHER -> paragraph(termination, string, i + 1, ns, node.rest))
    ELSE paragraph(termination, string, i + 1, ns, in)

(***************************************************************************)
(* markcomp/src/mdast.rs: the blocks of the combinator markdown parser.    *)
(* The inputs hold none of the characters < ~ $, so that of the blocks     *)
(* only YAML, code fenced by backticks, headings and paragraphs are        *)
(* entered.                                                                *)
(***************************************************************************)
mdast_Yaml(v) == [kind |-> "Yaml", value |-> v, children |-> <<>>]

mdast_Code(v, lang) ==
    [kind |-> "Code", value |-> v, children |-> <<>>, lang |-> lang]

mdast_Heading(kids, depth) ==
    [kind |-> "Heading", value |-> <<>>, children |-> kids, depth |-> depth]

mdast_Paragraph(kids) ==
    [kind |-> "Paragraph", value |-> <<>>, children |-> kids]

\* winnow::ascii::space0: the input after its leading blanks and tabs
space0(in) == SubSeq(in, take_while(in, { " ", "\t" }) + 1, Len(in))

\* winnow::ascii::line_ending: \n or \r\n
line_ending(in) ==
    IF literal(<<"\n">>, in).r = "Ok" THEN literal(<<"\n">>, in)
    ELSE literal(<<"\r", "\n">>, in)

\* winnow::combinator::opt: a Backtrack error is None and the input is
\* where it was
opt(res, in) == IF res.r = "Backtrack" THEN Ok(<<>>, in) ELSE res

\* mdast.rs 236-242
fence(fe, in) ==
    and_then(literal(fe, in), LAMBDA open :
    and_then(line_ending(space0(open.rest)), LAMBDA end :
        Ok(<<>>, end.rest)))

\* mdast.rs 244-249: the block runs to the first fence; without one the
\* error of advance_to is Cut
yaml(in) ==
    and_then(fence(<<"-", "-", "-">>, in), LAMBDA open :
    and_then(parse_advance_to(LAMBDA at : fence(<<"-", "-", "-">>, at), "-",
                              open.rest), LAMBDA value :
        Ok(mdast_Yaml(value.v), value.rest)))

\* mdast.rs 266-281
code(fe, hint, in) ==
    and_then(literal(fe, in), LAMBDA open :
    and_then(opt(identifier(space0(open.rest)), open.rest), LAMBDA lang :
    and_then(line_ending(space0(lang.rest)), LAMBDA end :
    and_then(parse_advance_to(LAMBDA at : fence(fe, at), hint, end.rest),
             LAMBDA value :
        Ok(mdast_Code(value.v, lang.v), value.rest)))))

\* mdast.rs 319-325: take_while(1..256, '#') takes up to 255 characters
heading(in) ==
    Let(Min({ take_while(in, { "#" }), 255 }), LAMBDA depth :
        IF depth = 0 THEN ErrMode("Backtrack", in)
        ELSE Let(SubSeq(in, depth + 1, Len(in)), LAMBDA after :
             and_then(paragraph({ "\r", "\n" }, after, 1, <<>>, after),
                      LAMBDA kids :
             and_then(line_ending(kids.rest), LAMBDA end :
                 Ok(mdast_Heading(kids.v, depth), end.rest)))))

\* mdast.rs 327-340: the block the first character selects, and the white
\* space after it
top_block(in) ==
    and_then(IF in = <<>> THEN ErrMode("Backtrack", in)
             ELSE CASE in[1] = "-" -> yaml(in)
                    [] in[1] = Backtick ->
                         code(<<Backtick, Backtick, Backtick>>, Backtick, in)
                    [] in[1] = "#" -> heading(in)
                    [] OTHER -> ErrMode("Backtrack", in),
             LAMBDA block : Ok(block.v, multispace0(block.rest)))

\* mdast.rs 396-401: top_paragraph leaves its loop
paragraph_break(in) ==
    \/ \E start \in { <<"~", "~", "~">>, <<"-", "-", "-">>,
                      <<Backtick, Backtick, Backtick>>, <<"#">>, <<"$", "$">> } :
          literal(start, in).r = "Ok"
    \/ line_ending(in).r = "Ok"
    \/ in = <<>>

(***************************************************************************)
(* markcomp/src/arena.rs: the same parser over a flat arena of nodes. A    *)
(* node holds the handles of its children; a result carries the arena,     *)
(* which keeps what a failed parser has inserted.                          *)
(***************************************************************************)
\* arena.rs 71: NodeId(u16)
NodeIdRange == 65536

\* arena.rs 58: `id as u16` of the length of the arena before the push
NodeId(len) == len % NodeIdRange

\* arena.rs 55-59: NodeArena::insert
insert(arena, node) ==
    [arena |-> Append(arena, node), id |-> NodeId(Len(arena))]

ArenaOk(v, rest, arena) == [r |-> "Ok", v |-> v, rest |-> rest, arena |-> arena]

\* the result of a parser that does not insert
with_arena(res, arena) ==
    [r |-> res.r, v |-> res.v, rest |-> res.rest, arena |-> arena]

\* arena.rs 453: the characters at which paragraph tries an inline node
ArenaInlineStart == { "*", "[", "!", "~", "$", Backtick }

\* arena.rs 472-480: no node is an error
arena_paragraph_end(ns, in, arena) ==
    IF ns = <<>> THEN with_arena(ErrMode("Backtrack", in), arena)
    ELSE ArenaOk(ns, in, arena)

\* arena.rs 439, 446, 458: the text before the character at i is inserted
\* and its handle pushed, when there is text
push_text(string, i, ns, arena) ==
    IF i # 1
    THEN Let(insert(arena, mdast_Text(SubSeq(string, 1, i - 1))), LAMBDA t :
             [ns |-> Append(ns, t.id), arena |-> t.arena])
    ELSE [ns |-> ns, arena |-> arena]

RECURSIVE arena_strong(_, _), arena_inline_node(_, _),
          arena_paragraph(_, _, _, _, _, _)

\* arena.rs 407-411: delimited("**", paragraph('*'), "**")
arena_strong(in, arena) ==
    and_then(with_arena(literal(<<"*", "*">>, in), arena), LAMBDA open :
    and_then(arena_paragraph({ "*" }, open.rest, 1, <<>>, open.rest, arena),
             LAMBDA body :
    and_then(with_arena(literal(<<"*", "*">>, body.rest), body.arena),
             LAMBDA close :
        ArenaOk(body.v, close.rest, body.arena))))

\* arena.rs 413-424: dispatch on the first character; there is no branch
\* for _
arena_inline_node(in, arena) ==
    IF in = <<>> THEN with_arena(ErrMode("Backtrack", in), arena)
    ELSE CASE in[1] = "*" ->
                and_then(arena_strong(in, arena), LAMBDA kids :
                    ArenaOk(mdast_Strong(kids.v), kids.rest, kids.arena))
           [] in[1] = Backtick ->
                with_arena(map(inline_code(in), mdast_InlineCode), arena)
           [] OTHER -> with_arena(ErrMode("Backtrack", in), arena)

\* arena.rs 426-482: the loop over the characters of string, at character i,
\* with the handles pushed so far and the place of the input
arena_paragraph(termination, string, i, ns, in, arena) ==
    IF i > Len(string)
    THEN (IF string # <<>>
          THEN Let(insert(arena, mdast_Text(string)), LAMBDA t :
                   arena_paragraph_end(Append(ns, t.id), in, t.arena))
          ELSE arena_paragraph_end(ns, in, arena))
    ELSE IF string[i] \in termination
    THEN (IF i # 1
          THEN Let(push_text(string, i, ns, arena), LAMBDA t :
                   arena_paragraph_end(t.ns, SubSeq(string, i, Len(string)),
                                       t.arena))
          ELSE arena_paragraph_end(ns, in, arena))
    ELSE IF string[i] \in ArenaInlineStart
    THEN Let(arena_inline_node(SubSeq(string, i, Len(string)), arena),
             LAMBDA node :
            CASE node.r = "Ok" ->
                   Let(push_text(string, i, ns, node.arena), LAMBDA t :
                   Let(insert(t.arena, node.v), LAMBDA n :
                       arena_paragraph(termination, node.rest, 1,
                                       Append(t.ns, n.id), node.rest, n.arena)))
              [] node.r = "Cut" -> node
              [] OTHER -> arena_paragraph(termination, string, i + 1, ns,
                                          node.rest, node.arena))
    ELSE arena_paragraph(termination, string, i + 1, ns, in, arena)

\* arena.rs 356-362
arena_heading(in, arena) ==
    Let(Min({ take_while(in, { "#" }), 255 }), LAMBDA depth :
        IF depth = 0 THEN with_arena(ErrMode("Backtrack", in), arena)
        ELSE Let(SubSeq(in, depth + 1, Len(in)), LAMBDA after :
             and_then(arena_paragraph({ "\r", "\n" }, after, 1, <<>>, after,
                                      arena), LAMBDA kids :
             and_then(with_arena(line_ending(kids.rest), kids.arena),
                      LAMBDA end :
                 ArenaOk(mdast_Heading(kids.v, depth), end.rest, end.arena)))))

\* arena.rs 369-380: the block the first character selects, and the white
\* space after it; there is no branch for a fence of backticks
arena_top_block(in, arena) ==
    and_then(IF in = <<>> THEN with_arena(ErrMode("Backtrack", in), arena)
             ELSE CASE in[1] = "-" -> with_arena(yaml(in), arena)
                    [] in[1] = "#" -> arena_heading(in, arena)
                    [] OTHER -> with_arena(ErrMode("Backtrack", in), arena),
             LAMBDA block :
                 ArenaOk(block.v, multispace0(block.rest), block.arena))

\* arena.rs 382-390: after a Backtrack error of the dispatch one paragraph,
\* from where the input was left; the node is inserted
arena_top(in, arena) ==
    and_then(Let(arena_top_block(in, arena), LAMBDA block :
                 IF block.r = "Backtrack"
                 THEN and_then(arena_paragraph({ "\r", "\n" }, block.rest, 1,
                                               <<>>, block.rest, block.arena),
                               LAMBDA kids :
                          ArenaOk(mdast_Paragraph(kids.v),
                                  multispace0(kids.rest), kids.arena))
                 ELSE block),
             LAMBDA node :
                 Let(insert(node.arena, node.v), LAMBDA n :
                     ArenaOk(n.id, node.rest, n.arena)))

RECURSIVE arena_repeat(_, _, _)

\* winnow repeat(0.., top): a Backtrack error ends the repetition with the
\* input reset, a parser that has consumed nothing fails ErrMode::assert
arena_repeat(in, acc, arena) ==
    Let(arena_top(in, arena), LAMBDA block :
        CASE block.r = "Backtrack" -> ArenaOk(acc, in, block.arena)
          [] block.r # "Ok" -> block
          [] Len(block.rest) = Len(in) ->
               [r |-> "Assert", v |-> acc, rest |-> in, arena |-> block.arena]
          [] OTHER -> arena_repeat(block.rest, Append(acc, block.v),
                                   block.arena))

\* arena.rs 484-486: preceded(multispace0, repeat(0.., top))
arena_document(in, arena) == arena_repeat(multispace0(in), <<>>, arena)

\* arena.rs 493-506: Document::parse, which needs the whole input consumed;
\* ErrMode::assert panics in a build with debug assertions and is an error
\* without them
Document_parse(in, arena) ==
    Let(arena_document(in, arena), LAMBDA res :
        CASE res.r = "Assert" ->
               { [r |-> outcome, nodes |-> <<>>, arena |-> res.arena] :
                   outcome \in { "panic", "Err" } }
          [] res.r = "Ok" /\ res.rest = <<>> ->
               { [r |-> "Ok", nodes |-> res.v, arena |-> res.arena] }
          [] OTHER -> { [r |-> "Err", nodes |-> <<>>, arena |-> res.arena] })

RECURSIVE resolve(_, _)

\* arena.rs 62-68: the node a handle indexes, with the handles of its
\* children resolved in turn
resolve(arena, id) ==
    Let(arena[id + 1], LAMBDA node :
        [node EXCEPT !.children =
            [k \in DOMAIN node.children |-> resolve(arena, node.children[k])]])

(***************************************************************************)
(* One input through inline_node, with parse_next and with parse, and      *)
(* through paragraph.                                                      *)
(***************************************************************************)
\* the characters of the inputs
MdChars == { "a", " ", "*", "_", Backtick }

RECURSIVE MdInputs(_)
MdInputs(n) ==
    IF n = 0 THEN { <<>> }
    ELSE LET shorter == MdInputs(n - 1)
         IN  shorter \cup { <<c>> \o src : c \in MdChars, src \in shorter }

\* not yet parsed
NotParsed == [r |-> "pending", v |-> <<>>, rest |-> <<>>]

\* document is not called: its position, the input left, the input at the
\* start of the iteration of repeat, the blocks repeat has collected and the
\* inline nodes top_paragraph has collected
DocIdle ==
    [pc |-> "idle", input |-> <<>>, start |-> <<>>, acc |-> <<>>,
     para |-> <<>>]

\* no handle is returned yet
NoHandle == -1

\* an arena of len nodes, to which nothing is inserted yet
ArenaOf(len) == [len |-> len, start |-> len, last |-> NoHandle]

InitMdast(sources) ==
    \E src \in sources :
        md = [source |-> src, node |-> NotParsed, whole |-> Pending,
              paragraph |-> NotParsed, doc |-> DocIdle,
              tree |-> [r |-> "pending", nodes |-> <<>>, arena |-> <<>>],
              inserts |-> ArenaOf(0)]

\* nothing is parsed as markdown
IdleMdast == md = [source |-> <<>>]

\* mdast.rs 376-388: inline_node.parse_next
InlineNodeParseNext ==
    /\ md.node = NotParsed
    /\ md' = [md EXCEPT !.node = inline_node(md.source)]
    /\ UNCHANGED notMdast

\* mdast.rs 475-480: inline_node.parse, the whole input is one node
InlineNodeParse ==
    /\ md.whole = Pending
    /\ md' = [md EXCEPT !.whole = parse(inline_node(md.source))]
    /\ UNCHANGED notMdast

\* mdast.rs 393: paragraph(('\r', '\n')).parse_next
ParagraphParseNext ==
    /\ md.paragraph = NotParsed
    /\ md' = [md EXCEPT !.paragraph =
                  paragraph({ "\r", "\n" }, md.source, 1, <<>>, md.source)]
    /\ UNCHANGED notMdast

NextMdast ==
    \/ InlineNodeParseNext
    \/ InlineNodeParse
    \/ ParagraphParseNext

(***************************************************************************)
(* mdast::document, one step for each iteration of repeat(0.., top) and of *)
(* the loop of top_paragraph.                                              *)
(***************************************************************************)
DocParts ==
    { <<"a">>, <<"\n">>, <<"_">>, <<Backtick>>, <<"*", "*">>, <<"#">>,
      <<"-", "-", "-", "\n">>, <<Backtick, Backtick, Backtick, "\n">> }

RECURSIVE DocInputs(_)
DocInputs(n) ==
    IF n = 0 THEN { <<>> }
    ELSE LET shorter == DocInputs(n - 1)
         IN  shorter \cup { part \o src : part \in DocParts, src \in shorter }

\* winnow repeat(0.., top) after top has returned Ok: a parser that has
\* consumed nothing fails ErrMode::assert, which panics in a build with
\* debug assertions and is an error without them
repeat_accumulate(doc, block, rest) ==
    IF Len(rest) = Len(doc.start)
    THEN { [doc EXCEPT !.pc = outcome, !.input = rest] :
             outcome \in { "panic", "error" } }
    ELSE { [doc EXCEPT !.pc = "top", !.input = rest,
                       !.acc = Append(@, block), !.para = <<>>] }

\* winnow repeat(0.., top) after top has returned an error: Backtrack ends
\* the repetition with the input reset to the start of the iteration
repeat_stop(doc, mode) ==
    IF mode = "Backtrack"
    THEN [doc EXCEPT !.pc = "ok", !.input = doc.start, !.para = <<>>]
    ELSE [doc EXCEPT !.pc = "error"]

\* mdast.rs 467-469: preceded(multispace0, repeat(0.., top))
DocumentStart ==
    /\ md.doc.pc = "idle"
    /\ md' = [md EXCEPT !.doc = [DocIdle EXCEPT !.pc = "top",
                                     !.input = multispace0(md.source)]]
    /\ UNCHANGED notMdast

\* mdast.rs 326-347: one iteration of repeat enters top; a Backtrack error
\* of the dispatch goes on to top_paragraph from where the input was left
TopBlock ==
    /\ md.doc.pc = "top"
    /\ LET doc == [md.doc EXCEPT !.start = md.doc.input]
           block == top_block(md.doc.input)
       IN  \E next \in
               CASE block.r = "Ok" -> repeat_accumulate(doc, block.v, block.rest)
                 [] block.r = "Backtrack" ->
                      { [doc EXCEPT !.pc = "top_paragraph",
                                    !.input = block.rest, !.para = <<>>] }
                 [] OTHER -> { repeat_stop(doc, block.r) } :
               md' = [md EXCEPT !.doc = next]
    /\ UNCHANGED notMdast

\* mdast.rs 392-405: one iteration of the loop of top_paragraph; when it
\* breaks, mdast.rs 343-345 and the next step of repeat
TopParagraph ==
    /\ md.doc.pc = "top_paragraph"
    /\ Len(md.doc.para) < MaxParagraphNodes
    /\ LET p == paragraph({ "\r", "\n" }, md.doc.input, 1, <<>>, md.doc.input)
       IN  IF p.r # "Ok"
           THEN md' = [md EXCEPT !.doc = repeat_stop(md.doc, p.r)]
           ELSE LET after == opt(line_ending(p.rest), p.rest).rest
                    collected == md.doc.para \o p.v
                IN  IF paragraph_break(after)
                    THEN \E next \in repeat_accumulate(md.doc,
                                         mdast_Paragraph(collected),
                                         multispace0(after)) :
                             md' = [md EXCEPT !.doc = next]
                    ELSE md' = [md EXCEPT !.doc.input = after,
                                          !.doc.para = collected]
    /\ UNCHANGED notMdast

\* arena.rs 493-506: Document::parse into an empty arena
ArenaParse ==
    /\ md.tree.r = "pending"
    /\ \E parsed \in Document_parse(md.source, <<>>) :
          md' = [md EXCEPT !.tree = parsed]
    /\ UNCHANGED notMdast

NextDocument ==
    \/ DocumentStart
    \/ TopBlock
    \/ TopParagraph
    \/ ArenaParse

(***************************************************************************)
(* NodeArena::insert, called over and over on one arena. insert only       *)
(* pushes, so that the node at index k of the arena is the node of the     *)
(* k-th call (from 0) and the arena is given by its length; the call that  *)
(* found k nodes returned NodeId(k).                                       *)
(***************************************************************************)
\* the arenas the calls start from: an empty one, and one so long that the
\* calls go past the last 16-bit index
ArenaSizes == { 0, NodeIdRange + 1 - MaxInserts }

\* arena.rs 55-59: NodeArena::insert
ArenaInsert ==
    /\ md.inserts.len < md.inserts.start + MaxInserts
    /\ md' = [md EXCEPT !.inserts.len = @ + 1,
                        !.inserts.last = NodeId(md.inserts.len)]
    /\ UNCHANGED notMdast

NextArena == ArenaInsert

(***************************************************************************)
(* src/gen.rs: process_site over the markdown and html files of a site.    *)
(* A file is a markdown file, whose closure of the first stage returns Ok  *)
(* or Err and whose page the second stage finds well formed or not, or an  *)
(* html file, which the second stage finds well formed or not. The         *)
(* components, the style sheets and the file system do not fail.           *)
(***************************************************************************)
SiteFiles ==
    { [kind |-> "md", ok |-> FALSE, page |-> FALSE],
      [kind |-> "md", ok |-> TRUE, page |-> TRUE],
      [kind |-> "md", ok |-> TRUE, page |-> FALSE],
      [kind |-> "html", ok |-> TRUE, page |-> TRUE],
      [kind |-> "html", ok |-> TRUE, page |-> FALSE] }

RECURSIVE Sites(_)
Sites(n) ==
    IF n = 0 THEN { <<>> }
    ELSE LET fewer == Sites(n - 1)
         IN  fewer \cup { <<f>> \o fs : f \in SiteFiles, fs \in fewer }

\* the files of one kind, in the order of the walk
entries(files, kind) ==
    SelectSeq([k \in DOMAIN files |-> k], LAMBDA k : files[k].kind = kind)

\* gen.rs 55-120: the walks have collected the markdown entries and the
\* paths of the html files
InitSite(sites) ==
    \E files \in sites :
        site = [files |-> files, pc |-> "markdown",
                markdown_entries |-> entries(files, "md"),
                paths |-> entries(files, "html"),
                taken |-> {}, written |-> {}, failed |-> FALSE,
                result |-> "pending"]

\* process_site is not called
IdleSite == site = [pc |-> "idle"]

\* gen.rs 121-172: the next markdown entry of the sequential iterator; the
\* collect into a Result stops at the first Err, which `?` returns from
\* process_site
MarkdownEntry ==
    /\ site.pc = "markdown"
    /\ site.markdown_entries # <<>>
    /\ LET entry == Head(site.markdown_entries)
       IN  IF site.files[entry].ok
           THEN site' = [site EXCEPT !.markdown_entries = Tail(@),
                                     !.paths = Append(@, entry)]
           ELSE site' = [site EXCEPT !.pc = "returned", !.result = "Err"]
    /\ UNCHANGED notSite

\* gen.rs 174-206: the blog index is written and its path pushed
BlogIndex ==
    /\ site.pc = "markdown"
    /\ site.markdown_entries = <<>>
    /\ site' = [site EXCEPT !.pc = "html", !.paths = Append(@, 0)]
    /\ UNCHANGED notSite

\* the page of a path is well formed; path 0 is the blog index
WellFormed(files, path) == path = 0 \/ files[path].page

\* the paths no thread has taken
Untaken == { p \in 1..Len(site.paths) : p \notin site.taken }

\* gen.rs 208-237: a thread of the pool maps one path: Document::new,
\* expand, write
HtmlPath ==
    /\ site.pc = "html"
    /\ \E p \in Untaken :
          IF WellFormed(site.files, site.paths[p])
          THEN site' = [site EXCEPT !.taken = @ \cup { p },
                                    !.written = @ \cup { site.paths[p] }]
          ELSE site' = [site EXCEPT !.taken = @ \cup { p }, !.failed = TRUE]
    /\ UNCHANGED notSite

\* gen.rs 238: rayon's collect into a Result (while_some) stops feeding the
\* closure once one item is an Err: a path not yet taken may be dropped
HtmlSkip ==
    /\ site.pc = "html"
    /\ site.failed
    /\ \E p \in Untaken : site' = [site EXCEPT !.taken = @ \cup { p }]
    /\ UNCHANGED notSite

\* gen.rs 238-251: the collect returns, `?` returns its Err; otherwise
\* output.css is written and process_site returns Ok
HtmlCollect ==
    /\ site.pc = "html"
    /\ Untaken = {}
    /\ site' = [site EXCEPT !.pc = "returned",
                            !.result = IF site.failed THEN "Err" ELSE "Ok"]
    /\ UNCHANGED notSite

NextSite ==
    \/ MarkdownEntry
    \/ BlogIndex
    \/ HtmlPath
    \/ HtmlSkip
    \/ HtmlCollect

(***************************************************************************)
(* Specifications.                                                         *)
(***************************************************************************)
\* a document that is not expanded
IdleExpand == InitExpand({ <<>> }, { <<>> })

\* no other compiler runs
IdleOthers == IdlePull /\ IdleMarkup /\ IdleMdast /\ IdleSite

\* component expansion over the generated documents and component sets
Init == InitExpand(Documents, ComponentSets) /\ IdleLazy /\ IdleVisitor /\ IdleOthers

Next == NextExpand

Spec == Init /\ [][Next]_vars

\* component expansion over the documents and components with attributes
InitAttr ==
    InitExpand(AttrDocuments, AttrComponentSets) /\ IdleLazy /\ IdleVisitor /\ IdleOthers

SpecAttr == InitAttr /\ [][Next]_vars

\* the threads that share one LazyComponent
InitLazyOnly == InitLazy /\ IdleExpand /\ IdleVisitor /\ IdleOthers

SpecLazy == InitLazyOnly /\ [][NextLazy]_vars

\* component expansion over the component sets with a reference cycle
InitCycle ==
    InitExpand(CycleDocuments, CyclicComponentSets) /\ IdleLazy /\ IdleVisitor /\ IdleOthers

SpecCycle == InitCycle /\ [][Next]_vars

\* the streaming visitor over the generated inputs
InitVisitorOnly == InitVisitor(Inputs(MaxChunks)) /\ IdleExpand /\ IdleLazy /\ IdleOthers

SpecVisitor == InitVisitorOnly /\ [][NextVisitor]_vars

\* both markdown compilers over the documents that open with frontmatter
InitFrontmatter ==
    /\ \E c \in FrontmatterCases :
          /\ InitVisitor({ markdown(c) })
          /\ InitPull({ events(markdown(c)) })
    /\ IdleExpand /\ IdleLazy /\ IdleMarkup /\ IdleMdast /\ IdleSite

NextFrontmatter == NextVisitor \/ NextPull

SpecFrontmatter == InitFrontmatter /\ [][NextFrontmatter]_vars

\* the markup parser and writer over the generated source texts
InitMarkupOnly ==
    /\ InitMarkup(Sources(MaxParts))
    /\ IdleExpand /\ IdleLazy /\ IdleVisitor /\ IdlePull /\ IdleMdast /\ IdleSite

SpecMarkup == InitMarkupOnly /\ [][NextMarkup]_vars

\* the combinator markdown parser over the generated inputs
InitMdastOnly ==
    /\ InitMdast(MdInputs(MaxMdLen))
    /\ IdleExpand /\ IdleLazy /\ IdleVisitor /\ IdlePull /\ IdleMarkup /\ IdleSite

SpecMdast == InitMdastOnly /\ [][NextMdast]_vars

\* mdast::document over the generated markdown documents
InitDocument ==
    /\ InitMdast(DocInputs(MaxDocParts))
    /\ IdleExpand /\ IdleLazy /\ IdleVisitor /\ IdlePull /\ IdleMarkup /\ IdleSite

SpecDocument == InitDocument /\ [][NextDocument]_vars

\* NodeArena::insert on the arenas of ArenaSizes
InitArena ==
    /\ \E len \in ArenaSizes :
          md = [source |-> <<>>, node |-> NotParsed, whole |-> Pending,
                paragraph |-> NotParsed, doc |-> DocIdle,
                tree |-> [r |-> "pending", nodes |-> <<>>, arena |-> <<>>],
                inserts |-> ArenaOf(len)]
    /\ IdleExpand /\ IdleLazy /\ IdleVisitor /\ IdlePull /\ IdleMarkup /\ IdleSite

SpecArena == InitArena /\ [][NextArena]_vars

\* process_site over the generated sites
InitSiteOnly ==
    /\ InitSite(Sites(MaxFiles))
    /\ IdleExpand /\ IdleLazy /\ IdleVisitor /\ IdlePull /\ IdleMarkup /\ IdleMdast

SpecSite == InitSiteOnly /\ [][NextSite]_vars

(***************************************************************************)
(* Properties of the component expansion engine.                           *)
(***************************************************************************)
\* the name is the name of the root of a registered component
IsComponentName(name) == \E k \in 1..Len(components) : components[k].name = name

\* some element of the node list, at any depth, names a component
RECURSIVE HasReference(_)
HasReference(ns) ==
    \E k \in 1..Len(ns) :
        /\ IsElement(ns[k])
        /\ \/ IsComponentName(ns[k].name)
           \/ HasReference(ns[k].children)

\* the uids of the nodes of the parsed document that are in the node list,
\* in document order (a node before its children, then its next sibling)
RECURSIVE Uids(_)
Uids(ns) ==
    IF ns = <<>> THEN <<>>
    ELSE (IF Head(ns).uid > 0 THEN <<Head(ns).uid>> ELSE <<>>)
         \o Uids(Head(ns).children) \o Uids(Tail(ns))

Increasing(s) == \A k \in 1..(Len(s) - 1) : s[k] < s[k + 1]

\* number of outlet elements in a node list, at any depth
RECURSIVE CountOutlets(_)
CountOutlets(ns) ==
    IF ns = <<>> THEN 0
    ELSE (IF IsElement(Head(ns)) /\ Head(ns).name = "children" THEN 1 ELSE 0)
         + CountOutlets(Head(ns).children) + CountOutlets(Tail(ns))

\* the node list with its first outlet element, in document order, replaced
\* by the nodes kids
RECURSIVE OutletReplaced(_, _)
OutletReplaced(ns, kids) ==
    IF ns = <<>> THEN <<>>
    ELSE LET n == Head(ns)
         IN  IF IsElement(n) /\ n.name = "children" THEN kids \o Tail(ns)
             ELSE IF CountOutlets(n.children) > 0
                  THEN <<[n EXCEPT !.children = OutletReplaced(@, kids)]>>
                       \o Tail(ns)
                  ELSE <<n>> \o OutletReplaced(Tail(ns), kids)

\* the elements of the node list that name no component and are inside no
\* element that names one, as [uid, name, attributes]
RECURSIVE PlainElements(_)
PlainElements(ns) ==
    UNION { IF IsElement(ns[k]) /\ ~IsComponentName(ns[k].name)
            THEN { [uid |-> ns[k].uid, name |-> ns[k].name,
                    attributes |-> ns[k].attributes] }
                 \cup PlainElements(ns[k].children)
            ELSE {}
            : k \in 1..Len(ns) }

\* all elements of the node list, as [uid, name, attributes]
RECURSIVE AllElements(_)
AllElements(ns) ==
    UNION { IF IsElement(ns[k])
            THEN { [uid |-> ns[k].uid, name |-> ns[k].name,
                    attributes |-> ns[k].attributes] }
                 \cup AllElements(ns[k].children)
            ELSE {}
            : k \in 1..Len(ns) }

\* C1: for an acyclic component set expand terminates by returning
\* normally, wherever the references stand in their sibling lists: a run
\* never stops before expand has returned.  (Every component set of Spec is
\* acyclic: Box may reference Card, Card references nothing.)
C1_ExpandReturnsNormally == pc = "returned" \/ ENABLED Next

\* C2: whenever expand has returned, no element of the tree at any depth
\* names a component, and a call of expand that follows a call that
\* returned substitutes nothing and leaves the tree as it found it.
C2_ExpandIdempotent ==
    /\ pc = "returned" => ~HasReference(nodes)
    /\ rerun => substitutions = 0 /\ nodes = snapshot

\* expand returned from a second call on a document the first call changed
C2_Witness == pc = "returned" /\ rerun /\ nodes # original

\* C3: when the copied body holds an outlet (here: exactly one) and the
\* call site has children, the splice puts the call site's children where
\* the outlet stood, in their order, between the body nodes before and
\* after the outlet.
C3_OutletSplicePreservesOrder ==
    [][ ( /\ pc = "running"
          /\ Top.phase = "bound"
          /\ CountOutlets(component_copy.children) = 1
          /\ Cur[Top.index].children # <<>> )
        => component_copy'.children =
              OutletReplaced(component_copy.children,
                             Cur[Top.index].children) ]_vars

\* the registered component of that name
TemplateOf(name) ==
    components[Min({ k \in 1..Len(components) : components[k].name = name })]

\* what an attribute value of a template becomes at a call site: the value
\* v names a formal parameter (an attribute declared on the component root)
\* and becomes the value of the call site's attribute of that name, or the
\* declared value when the call site has none; any other value stays
ForwardedValue(v, declared, passed) ==
    IF v = <<>> \/ FindAttribute(declared, v[1]) = 0 THEN v
    ELSE IF \E j \in 1..Len(passed) : passed[j].name = v[1]
         THEN passed[Min({ j \in 1..Len(passed) : passed[j].name = v[1] })].value
         ELSE declared[Min({ j \in 1..Len(declared) :
                               declared[j].name = v[1] })].value

\* copy is template with every attribute value, at any depth, forwarded
RECURSIVE Forwarded(_, _, _, _)
Forwarded(template, copy, declared, passed) ==
    /\ copy.kind = template.kind
    /\ copy.name = template.name
    /\ copy.text = template.text
    /\ Len(copy.attributes) = Len(template.attributes)
    /\ \A k \in 1..Len(template.attributes) :
          /\ copy.attributes[k].name = template.attributes[k].name
          /\ copy.attributes[k].value =
                ForwardedValue(template.attributes[k].value, declared, passed)
    /\ Len(copy.children) = Len(template.children)
    /\ \A k \in 1..Len(template.children) :
          IF IsElement(template.children[k])
          THEN Forwarded(template.children[k], copy.children[k],
                         declared, passed)
          ELSE copy.children[k] = template.children[k]

\* C4: in the copy of the component, every attribute whose value is the
\* name of a formal parameter has the value of the call site's attribute
\* of that name, or the declared value when the call site has none, and
\* every other attribute is as in the template.
C4_AttributeForwarding ==
    (pc = "running" /\ Top.phase = "bound")
    => Forwarded(TemplateOf(Cur[Top.index].name), component_copy,
                 TemplateOf(Cur[Top.index].name).attributes,
                 Cur[Top.index].attributes)

\* a copy whose body has an attribute bound to a value the call site passed
C4_Witness ==
    /\ pc = "running"
    /\ Top.phase = "bound"
    /\ component_copy.children # TemplateOf(Cur[Top.index].name).children
    /\ \E j \in 1..Len(Cur[Top.index].attributes) :
          Cur[Top.index].attributes[j] = Attribute("size", <<"24">>)

\* C5: the nodes of the parsed document that are in the tree keep their
\* document order, and a replacement puts the children of the copied
\* component root, in order, exactly where the reference stood.
C5_OrderPreserved ==
    /\ [](Increasing(Uids(nodes)))
    /\ [][ (pc = "running" /\ Top.phase = "spliced")
           => ListAt(nodes', Path) =
                 SubSeq(Cur, 1, Top.index - 1)
                 \o component_copy.children
                 \o SubSeq(Cur, Top.index + 1, Len(Cur)) ]_vars

\* expand returned after a substitution and two nodes of the parsed
\* document are still in the tree
C5_Witness ==
    pc = "returned" /\ substitutions > 0 /\ Len(Uids(nodes)) >= 2

\* C6: no step changes a registered component.
C6_TemplatesImmutable == [][components' = components]_vars

\* a copy was spliced and differs from the template it was cloned from
C6_Witness ==
    /\ pc = "running"
    /\ Top.phase = "spliced"
    /\ \E k \in 1..Len(components) :
          /\ components[k].name = component_copy.name
          /\ components[k] # component_copy

\* C7: an element that names no component is no error and stays as it is:
\* the step that meets it changes no node and descends into its children,
\* and the unknown elements of the parsed document that are inside no
\* reference are all in the tree with their name and attributes.
C7_UnknownTagsPassThrough ==
    /\ [](PlainElements(original) \subseteq AllElements(nodes))
    /\ [][ (AtElement /\ ~IsComponentName(Cur[Top.index].name))
           => /\ pc' = "running"
              /\ nodes' = nodes
              /\ Len(stack') = Len(stack) + 1
              /\ Path' = Append(Path, Top.index) ]_vars

\* expand returned after a substitution on a document with an unknown tag
C7_Witness ==
    pc = "returned" /\ substitutions > 0 /\ PlainElements(original) # {}

(***************************************************************************)
(* Properties of LazyComponent.                                            *)
(***************************************************************************)
\* C8: under every interleaving the raw markup is parsed and stored at
\* most once and the stored value is never replaced, every guard held or
\* dereferenced stands for that one stored component and never for None,
\* and a call that began when the value was stored neither waits for nor
\* holds the write lock.
C8_InitializedOnce ==
    /\ parses <= 1
    /\ component \in {0, 1}
    /\ component = 1 => parses = 1
    /\ \A t \in Threads :
          /\ guards[t] > 0 => component = 1
          /\ seen[t] \subseteq {1}
          /\ late[t] => /\ writer # t
                         /\ lpc[t] \in {"idle", "read", "check"}

\* two threads went through the write path, one of them found the value
\* stored by the other, and both hold a guard they have dereferenced
C8_Witness ==
    /\ component = 1
    /\ \A t \in {1, 2} : guards[t] > 0 /\ seen[t] = {1} /\ ~late[t]

(***************************************************************************)
(* Properties of the streaming visitor.                                    *)
(***************************************************************************)
\* the input is one link [body](u) whose body is plain text
IsSimpleLink(src) ==
    /\ Len(src) >= 6
    /\ src[1] = "["
    /\ SubSeq(src, Len(src) - 3, Len(src)) = <<"]", "(", "u", ")">>
    /\ \A i \in 2..(Len(src) - 4) : src[i] = "a"

LinkBody(src) == SubSeq(src, 2, Len(src) - 4)

\* part occurs in whole as a run of consecutive entries
Contains(whole, part) ==
    \E i \in 0..(Len(whole) - Len(part)) :
        SubSeq(whole, i + 1, i + Len(part)) = part

FootnoteOpen == frames # <<>> /\ frames[1].fn = "footnote"

\* the identifiers of the footnote definitions written in a buffer
RECURSIVE Definitions(_)
Definitions(bytes) ==
    IF bytes = <<>> THEN <<>>
    ELSE IF Head(bytes) = "<p><span id=\"fn"
         THEN <<advance_to(Tail(bytes), "\">").result>>
              \o Definitions(Tail(bytes))
         ELSE Definitions(Tail(bytes))

\* C10: no step taken while a footnote definition is open writes to the
\* main output buffer, and SimpleVisitor::output returns the main output
\* followed, when there are definitions, by one footnotes container that
\* holds every definition once, in the order of the definitions.
C10_FootnoteDeferral ==
    /\ [][FootnoteOpen => visitor'.output = visitor.output]_vars
    /\ [](vpc = "output" =>
            /\ Definitions(visitor.output) = <<>>
            /\ Definitions(visitor.footnotes) = defs
            /\ result = IF defs = <<>> THEN visitor.output
                        ELSE visitor.output \o <<"<Footnotes>">>
                             \o visitor.footnotes \o <<"</Footnotes>">>)

(***************************************************************************)
(* Properties of the outlet search and of the replacement.                 *)
(***************************************************************************)
\* the nodes of a node list that come from a component body (uid 0), at
\* every depth; the nodes of the parsed document are left out
RECURSIVE BodyNodes(_)
BodyNodes(ns) ==
    IF ns = <<>> THEN <<>>
    ELSE IF Head(ns).uid > 0 THEN BodyNodes(Tail(ns))
         ELSE <<[Head(ns) EXCEPT !.children = BodyNodes(@)]>>
              \o BodyNodes(Tail(ns))

\* C17: when the copied body holds at least one outlet, the splice removes
\* exactly one node of the body, the first outlet in document order; every
\* other node of the body, text siblings of the outlet and further outlets
\* included, stays.
C17_FirstOutletRemoved ==
    [][ ( /\ pc = "running"
          /\ Top.phase = "bound"
          /\ CountOutlets(component_copy.children) >= 1 )
        => BodyNodes(component_copy'.children) =
              OutletReplaced(component_copy.children, <<>>) ]_vars

\* C18: a replacement that inserts no node removes the reference and
\* leaves its siblings as they are, and the node list is never indexed out
\* of bounds, also when the reference was the last node of its list.
C18_ZeroNodeExpansion ==
    /\ [](pc # "panicked")
    /\ [][ ( /\ pc = "running"
             /\ Top.phase = "spliced"
             /\ component_copy.children = <<>> )
           => ListAt(nodes', Path) = RemoveAt(Cur, Top.index) ]_vars

\* the uids of the document nodes in a node list, at every depth
UidSet(ns) == { Uids(ns)[k] : k \in 1..Len(Uids(ns)) }

\* C19: when the copied body holds no outlet the call site's children are
\* dropped: the splice leaves the body as it is, and after the replacement
\* the body stands where the reference stood and no child of the call site
\* is anywhere in the tree.
C19_ChildrenDroppedWithoutOutlet ==
    /\ [][ ( /\ pc = "running"
             /\ Top.phase = "bound"
             /\ CountOutlets(component_copy.children) = 0 )
           => /\ component_copy' = component_copy
              /\ children' = Cur[Top.index].children ]_vars
    /\ [][ ( /\ pc = "running"
             /\ Top.phase = "spliced"
             /\ children # <<>> )
           => /\ UidSet(children) \cap UidSet(nodes') = {}
              /\ ListAt(nodes', Path) =
                    SubSeq(Cur, 1, Top.index - 1)
                    \o component_copy.children
                    \o SubSeq(Cur, Top.index + 1, Len(Cur)) ]_vars

\* a reference with children was replaced by a body that has nodes and no
\* outlet, and the pass went on
C19_Witness ==
    /\ pc = "running"
    /\ Top.phase = "descend"
    /\ substitutions = 1
    /\ UidSet(original) # UidSet(nodes) \cup {original[1].uid}
    /\ Len(original) = 1
    /\ original[1].name = "Box"
    /\ original[1].children # <<>>
    /\ CountOutlets(components[1].children) = 0
    /\ components[1].children # <<>>

\* C20: when the document reaches a component that lies on a cycle of the
\* reference graph expand never exits: it neither returns nor stops, and
\* every pass that ends has substituted, so another pass follows.
C20_CycleNeverExits ==
    CycleReachable(original, components) =>
        /\ pc \notin {"returned", "panicked"}
        /\ ( /\ pc = "running"
             /\ Len(stack) = 1
             /\ Top.phase = "scan"
             /\ Top.index > Len(Cur) ) => Top.mutated

(***************************************************************************)
(* Properties of the frontmatter.                                          *)
(***************************************************************************)
\* the positions after the first line at which a line holding only a
\* fence starts
ClosingFences(bytes) ==
    { i \in 5..(Len(bytes) - 2) :
        /\ bytes[i - 1] \in Newlines
        /\ SubSeq(bytes, i, i + 2) = <<"-", "-", "-">>
        /\ (i + 2 = Len(bytes) \/ bytes[i + 3] \in Newlines) }

\* the document opens with a fenced block
HasLeadingBlock(bytes) ==
    /\ Len(bytes) >= 4
    /\ SubSeq(bytes, 1, 3) = <<"-", "-", "-">>
    /\ bytes[4] \in Newlines
    /\ ClosingFences(bytes) # {}

\* the lines between the opening fence and the closing one
LeadingBlock(bytes) ==
    SubSeq(bytes, 5, Min(ClosingFences(bytes)) - 1)

\* the document opens with a block that is not a Frontmatter
BadFrontmatter ==
    /\ HasLeadingBlock(source)
    /\ ~Deserializes(LeadingBlock(source))

\* C11: when the leading --- block of a document does not deserialize as
\* Frontmatter, SimpleVisitor::new and pull::Writer::new return Err whatever
\* follows the block: neither gets past the block, neither returns a
\* visitor, and no output is produced.
C11_FrontmatterFatal ==
    BadFrontmatter =>
        /\ \/ vpc \in {"idle", "error"}
           \/ vpc = "running" /\ input = source /\ visitor = SimpleVisitor_new
        /\ result = <<>>
        /\ \/ pull.pc \in {"idle", "error"}
           \/ /\ pull.pc = "running"
              /\ pull.writer = Writer_new
              /\ \E k \in 1..Len(pull.events) :
                    /\ pull.events[k].kind = "End"
                    /\ pull.events[k].tag = "MetadataBlock"
        /\ pull.result = <<>>

\* both compilers have returned Err on a bad block that markdown follows
C11_Witness ==
    /\ BadFrontmatter
    /\ vpc = "error"
    /\ input # <<>>
    /\ pull.pc = "error"
    /\ pull.events # <<>>

(***************************************************************************)
(* Properties of the markup parser and writer.                             *)
(***************************************************************************)
ScriptName == <<"s", "c", "r", "i", "p", "t">>

\* the characters from position i on
From(s, i) == SubSeq(s, i, Len(s))

\* white space
Blank == { " ", "\t", "\n", "\r" }

\* the number of white space characters from position i on
Blanks(s, i) ==
    Cardinality({ k \in i..Len(s) : \A j \in i..k : s[j] \in Blank })

\* a closing tag of the name is written at position i: "</", white space,
\* the name, white space, ">"; its length, 0 when there is none
ClosingTagAt(name, s, i) ==
    IF i + 1 > Len(s) \/ s[i] # "<" \/ s[i + 1] # "/" THEN 0
    ELSE LET a == Blanks(s, i + 2)
             b == Blanks(s, i + 2 + a + Len(name))
             last == i + 2 + a + Len(name) + b
         IN  IF /\ last <= Len(s)
                /\ SubSeq(s, i + 2 + a, i + 1 + a + Len(name)) = name
                /\ s[last] = ">"
             THEN last - i + 1
             ELSE 0

\* the source opens with <script> and a closing tag of script follows
OpensWithScript(s) ==
    /\ Len(s) >= 8
    /\ SubSeq(s, 1, 8) = <<"<">> \o ScriptName \o <<">">>
    /\ \E i \in 9..Len(s) : ClosingTagAt(ScriptName, s, i) > 0

\* the position of the first closing tag of script after the opening tag
ScriptEnd(s) == Min({ i \in 9..Len(s) : ClosingTagAt(ScriptName, s, i) > 0 })

\* C12: the body of a script element opened with ">" is exactly the source
\* text up to the first position at which a closing tag of script is
\* written; it is one text node, whatever "<" it holds, and the parser goes
\* on after that closing tag.
C12_RawTextTolerance ==
    OpensWithScript(markup.source) =>
        LET s == markup.source
            body == SubSeq(s, 9, ScriptEnd(s) - 1)
            after == From(s, ScriptEnd(s) + ClosingTagAt(ScriptName, s, ScriptEnd(s)))
            script == Node_Element(ScriptName, <<>>, <<Node_Text(body)>>)
        IN  /\ markup.document.ok =>
                /\ markup.document.v[1] = script
                /\ Tail(markup.document.v) = Document_new(after).v
            /\ (markup.pc # "idle" /\ Document_new(after).ok) => markup.document.ok
            /\ markup.component.ok => markup.component.v = script
            /\ (markup.component # Pending /\ multispace0(after) = <<>>)
                  => markup.component.ok

\* a script whose body holds a "<" and a closing tag of another element is
\* parsed
C12_Witness ==
    /\ markup.pc = "parsed"
    /\ OpensWithScript(markup.source)
    /\ \E i \in 9..(ScriptEnd(markup.source) - 1) :
          /\ markup.source[i] = "<"
          /\ ClosingTagAt(<<"a">>, markup.source, i) > 0
    /\ markup.component.ok

\* the tag written at position i of the source: the opening tags of a, the
\* closing tag of a, the empty element b, or another use of "<"
TagAt(s, i) ==
    IF literal(<<"<", "a", ">">>, From(s, i)).r = "Ok"
    THEN [kind |-> "open", len |-> 3]
    ELSE IF literal(<<"<", "a", " ", "k", "=", "\"", "v", "\"", " ", "y", ">">>,
                    From(s, i)).r = "Ok"
    THEN [kind |-> "open", len |-> 11]
    ELSE IF literal(<<"<", "/", "a", ">">>, From(s, i)).r = "Ok"
    THEN [kind |-> "close", len |-> 4]
    ELSE IF literal(<<"<", "b", "/", ">">>, From(s, i)).r = "Ok"
    THEN [kind |-> "empty", len |-> 4]
    ELSE [kind |-> "other", len |-> 1]

\* a scan of the source from position i at depth d of open elements, n
\* constructs met at depth 0, t when the scan is inside a text run: known
\* is FALSE at a "<" that is no tag of the above and at a closing tag at
\* depth 0
RECURSIVE Scan(_, _, _, _, _)
Scan(s, i, d, n, t) ==
    IF i > Len(s) THEN [known |-> TRUE, depth |-> d, top |-> n]
    ELSE IF s[i] # "<"
    THEN Scan(s, i + 1, d, IF d = 0 /\ ~t THEN n + 1 ELSE n, TRUE)
    ELSE IF TagAt(s, i).kind = "open"
    THEN Scan(s, i + TagAt(s, i).len, d + 1, IF d = 0 THEN n + 1 ELSE n, FALSE)
    ELSE IF TagAt(s, i).kind = "empty"
    THEN Scan(s, i + TagAt(s, i).len, d, IF d = 0 THEN n + 1 ELSE n, FALSE)
    ELSE IF TagAt(s, i).kind = "close" /\ d > 0
    THEN Scan(s, i + TagAt(s, i).len, d - 1, n, FALSE)
    ELSE [known |-> FALSE, depth |-> d, top |-> n]

\* the source is text and well-formed tags of a and b, and the input ends
\* inside an element of a
Unclosed(s) == Scan(s, 1, 0, 0, FALSE).known /\ Scan(s, 1, 0, 0, FALSE).depth > 0

\* C13: when an element opened with ">" that is neither void nor raw text
\* is not followed by its closing tag, the parse fails with a Cut error
\* through every enclosing element and repetition: Document::new returns
\* Err and no tree, and so does Component::new on the one element.
C13_MissingClosingTagFatal ==
    Unclosed(markup.source) =>
        /\ markup.pc # "idle" =>
              /\ markup.pc = "error"
              /\ markup.document.error = "Cut"
              /\ markup.document.v = <<>>
        /\ ( /\ markup.component # Pending
             /\ markup.source[1] = "<"
             /\ Scan(markup.source, 1, 0, 0, FALSE).top = 1 ) =>
              /\ markup.component.error = "Cut"
              /\ markup.component.v = <<>>

\* an element that is closed inside an element that is not: both parsers
\* have failed
C13_Witness ==
    /\ Unclosed(markup.source)
    /\ Scan(markup.source, 1, 0, 0, FALSE).top = 1
    /\ \E i \in 2..Len(markup.source) :
          TagAt(markup.source, i).kind = "close"
    /\ markup.pc = "error"
    /\ markup.component.error = "Cut"

\* no element of the tree, at any depth, is a raw text or a void element
RECURSIVE NoEdgeCases(_)
NoEdgeCases(ns) ==
    \A k \in 1..Len(ns) :
        /\ ns[k].name \notin RawTextNames \cup VoidNames
        /\ NoEdgeCases(ns[k].children)

\* the tree without the white space of its text: the white space is taken
\* out of every text node and a text node left empty is dropped
RECURSIVE Normal(_)
Normal(ns) ==
    IF ns = <<>> THEN <<>>
    ELSE LET n == Head(ns)
             t == SelectSeq(n.text, LAMBDA c : c \notin Blank)
         IN  (IF n.kind = "Text"
              THEN IF t = <<>> THEN <<>> ELSE <<Node_Text(t)>>
              ELSE <<[n EXCEPT !.children = Normal(n.children)]>>)
             \o Normal(Tail(ns))

\* C14: for a source without raw text and void elements that Document::new
\* accepts, Document::new on what Document::write writes for the unmodified
\* tree succeeds and gives a tree equal to the first one, white space in
\* text apart.
C14_RoundTripIdentity ==
    (markup.pc = "reparsed" /\ NoEdgeCases(markup.document.v)) =>
        /\ markup.reparsed.ok
        /\ Normal(markup.reparsed.v) = Normal(markup.document.v)

\* the source is text, well-formed tags of a and b, and every element of a
\* is closed: a sequence of elements and text runs
Conforming(s) == Scan(s, 1, 0, 0, FALSE).known /\ Scan(s, 1, 0, 0, FALSE).depth = 0

\* C16: Document::new accepts every sequence of elements and text runs, a
\* text run at the end of the input included, and returns one node for each
\* of them.
C16_AcceptsConformingInput ==
    (markup.pc # "idle" /\ Conforming(markup.source)) =>
        /\ markup.document.ok
        /\ Len(markup.document.v) = Scan(markup.source, 1, 0, 0, FALSE).top

\* the characters of s from i on
MdFrom(s, i) == SubSeq(s, i, Len(s))

\* the places of s where a code span opened at the first character closes:
\* the first backtick after the opening one
CodeSpanEnds(s) ==
    { k \in 2..Len(s) :
        /\ s[1] = Backtick /\ s[k] = Backtick
        /\ \A j \in 2..(k - 1) : s[j] # Backtick }

\* plain text: a character at which paragraph tries no inline node
PlainText(t) == t # <<>> /\ \A j \in 1..Len(t) : t[j] \notin InlineStart

\* the places k of s with s = **t**..., the closing delimiter at k and k + 1,
\* t plain text
StrongSpanEnds(s) ==
    { k \in 4..(Len(s) - 1) :
        /\ s[1] = "*" /\ s[2] = "*"
        /\ PlainText(SubSeq(s, 3, k - 1))
        /\ s[k] = "*" /\ s[k + 1] = "*" }

\* C15: inline_node on an input that opens with a backtick-delimited span of
\* value v returns the node InlineCode(v), and on an input that opens with
\* **t**, t plain text, the node Strong with the one child Text(t); in both
\* cases the input is left right after the closing delimiter, so that a span
\* that is the whole input is accepted by inline_node.parse
C15_InlineCodeAndStrong ==
    /\ md.node # NotParsed =>
        /\ \A k \in CodeSpanEnds(md.source) :
              /\ md.node.r = "Ok"
              /\ md.node.v = mdast_InlineCode(SubSeq(md.source, 2, k - 1))
              /\ md.node.rest = MdFrom(md.source, k + 1)
        /\ \A k \in StrongSpanEnds(md.source) :
              /\ md.node.r = "Ok"
              /\ md.node.v =
                     mdast_Strong(<< mdast_Text(SubSeq(md.source, 3, k - 1)) >>)
              /\ md.node.rest = MdFrom(md.source, k + 2)
    /\ md.whole # Pending =>
        /\ \A k \in CodeSpanEnds(md.source) :
              k = Len(md.source) =>
                  /\ md.whole.ok
                  /\ md.whole.v = mdast_InlineCode(SubSeq(md.source, 2, k - 1))
        /\ \A k \in StrongSpanEnds(md.source) :
              k + 1 = Len(md.source) =>
                  /\ md.whole.ok
                  /\ md.whole.v =
                         mdast_Strong(<< mdast_Text(SubSeq(md.source, 3, k - 1)) >>)

\* C15 witness: both parses of **t** with a t of two characters are done and
\* gave the strong node
C15_Witness ==
    /\ Len(md.source) = 6
    /\ StrongSpanEnds(md.source) = { 5 }
    /\ md.node.r = "Ok" /\ md.node.v.kind = "Strong" /\ md.node.rest = <<>>
    /\ md.whole # Pending /\ md.whole.ok

\* an inline code span with a value of three characters is parsed
C15_WitnessCode ==
    /\ CodeSpanEnds(md.source) = { 5 }
    /\ md.node.r = "Ok" /\ md.node.v.kind = "InlineCode"
    /\ Len(md.node.v.value) = 3

\* a step of the streaming parser enters, or returns from, the span fn
EntersSpan(fn) == frames' = Append(frames, Frame(fn, 0))

ExitsSpan(fn) == frames # <<>> /\ TopFrame.fn = fn /\ frames' = PopFrame

\* C23: the callbacks of a span are those of its own kind: the step that
\* enters an underscore-delimited span calls emphasis_enter and the step
\* that returns from it calls emphasis_exit, the steps of an
\* asterisk-delimited span call strong_enter and strong_exit.
C23_CallbacksOfOwnKind ==
    [][/\ EntersSpan("em") => visitor' = emphasis_enter(visitor)
       /\ ExitsSpan("em") => visitor' = emphasis_exit(visitor)
       /\ EntersSpan("strong") => visitor' = strong_enter(visitor)
       /\ ExitsSpan("strong") => visitor' = strong_exit(visitor)]_vars

\* the states pushed by the constructs that are open, outermost first
RECURSIVE Pushed(_)
Pushed(fs) ==
    IF fs = <<>> THEN <<>>
    ELSE (CASE Head(fs).fn = "link" -> <<"Link">>
            [] Head(fs).fn = "footnote" -> <<"Footnote">>
            [] OTHER -> <<>>) \o Pushed(Tail(fs))

\* C28: while SimpleVisitor::new runs the state stack is the initial Normal
\* entry followed by one entry for each link and footnote definition that
\* is open, in the order they were entered: each push is undone by the pop
\* of its own construct and the Normal entry is never popped; when new has
\* returned Ok the stack is [Normal] and link_buffer is empty.
C28_StateStackBalanced ==
    /\ vpc = "running" => visitor.state = <<"Normal">> \o Pushed(frames)
    /\ vpc \in {"done", "output"} =>
          /\ visitor.state = <<"Normal">>
          /\ visitor.link_buffer = <<>>

\* new returned Ok on a footnote definition that holds a link in a link
C28_Witness ==
    /\ vpc = "done"
    /\ source = << "[", "^", "1", "]", ":", "[", "[", "]", "(", "u", ")" >>
    /\ Contains(visitor.footnotes, <<"</Link>">>)

\* the buffer that was written to before the link now left was entered:
\* the one the state below the link's own entry selects
EnclosingBuffer ==
    buffer(state([visitor EXCEPT !.state = pop(visitor.state)]))

\* new is old followed by the markup of a link with the body b: the
\* opening tag with some URL, b and the closing tag
AppendsLink(old, new, b) ==
    LET k == Len(new) - Len(b) - 1
    IN  /\ k >= Len(old) + 2
        /\ SubSeq(new, 1, Len(old)) = old
        /\ new[Len(old) + 1] = "<Link href=\""
        /\ new[k] = "\">"
        /\ SubSeq(new, k + 1, Len(new)) = b \o <<"</Link>">>

\* C29: the step that leaves a link appends the link's markup to the buffer
\* that was active before the link was entered and to no other: to the main
\* output or to footnotes, with the buffered body between the tags, and for
\* a link inside a link neither to the main output nor to footnotes, where
\* the enclosing link is not yet written.
C29_LinkExitBuffer ==
    [][ExitsSpan("link") =>
          CASE EnclosingBuffer = "output" ->
                 /\ visitor'.footnotes = visitor.footnotes
                 /\ AppendsLink(visitor.output, visitor'.output, visitor.link_buffer)
            [] EnclosingBuffer = "footnotes" ->
                 /\ visitor'.output = visitor.output
                 /\ AppendsLink(visitor.footnotes, visitor'.footnotes, visitor.link_buffer)
            [] EnclosingBuffer = "link_buffer" ->
                 /\ visitor'.output = visitor.output
                 /\ visitor'.footnotes = visitor.footnotes]_vars

\* the bytes html_encode replaces by an entity
EntityBytes == { "&", "<", ">", "\"", "'" }

\* C22: the text the streaming visitor writes is entity-escaped: none of the
\* bytes & < > " ' of the source text is in a buffer of the visitor, or in
\* the output it returns, as itself.
C22_TextEscaped ==
    /\ \A i \in 1..Len(visitor.output) : visitor.output[i] \notin EntityBytes
    /\ \A i \in 1..Len(visitor.link_buffer) :
          visitor.link_buffer[i] \notin EntityBytes
    /\ \A i \in 1..Len(visitor.footnotes) :
          visitor.footnotes[i] \notin EntityBytes
    /\ \A i \in 1..Len(result) : result[i] \notin EntityBytes


\* C27: every iteration of the loop of top_paragraph that goes on to a
\* further iteration has consumed at least one character of the input, and
\* so has every iteration of repeat(0.., top) that goes on to a further one
C27_IterationsConsume ==
    [][/\ (md.doc.pc = "top_paragraph" /\ md'.doc.pc = "top_paragraph")
            => Len(md'.doc.input) < Len(md.doc.input)
       /\ (md.doc.pc \in { "top", "top_paragraph" } /\ md'.doc.pc = "top")
            => Len(md'.doc.input) < Len(md'.doc.start)]_vars


\* the document holds one backtick: it opens an inline code span that
\* nothing closes
UnterminatedCode(src) ==
    Cardinality({ i \in DOMAIN src : src[i] = Backtick }) = 1

\* C24: mdast::document does not return Ok with the whole input consumed
\* for a document that holds an unterminated inline code span
C24_UnterminatedCodeFails ==
    UnterminatedCode(md.source)
        => ~(md.doc.pc = "ok" /\ md.doc.input = <<>>)


\* C25: of the blocks mdast::document has collected, only the first is a
\* Yaml node
C25_YamlOnlyFirst ==
    \A i \in DOMAIN md.doc.acc : md.doc.acc[i].kind = "Yaml" => i = 1


\* the owned tree mdast::document has returned, when it has returned Ok
\* with the whole input consumed
MdastParsed == md.doc.pc = "ok" /\ md.doc.input = <<>>

\* both parsers have returned
BothReturned ==
    /\ md.doc.pc \in { "ok", "error", "panic" }
    /\ md.tree.r # "pending"

\* the logical tree of the arena document
ResolvedTree ==
    [k \in DOMAIN md.tree.nodes |-> resolve(md.tree.arena, md.tree.nodes[k])]

\* C21: when both parsers have returned, Document::parse has succeeded
\* exactly when mdast::document has, and then the resolved handles are the
\* owned tree
C21_ParsersEquivalent ==
    BothReturned =>
        /\ md.tree.r = "Ok" <=> MdastParsed
        /\ (md.tree.r = "Ok" /\ MdastParsed) => ResolvedTree = md.doc.acc


\* a file fails: its markdown closure returns Err or its page is not well
\* formed
FileFails(f) == ~f.ok \/ ~f.page

\* C26: when process_site has returned, every file that does not fail
\* itself is compiled and written, and the result is Err exactly when some
\* file fails
C26_SiblingsStillBuilt ==
    site.pc = "returned" =>
        /\ \A k \in DOMAIN site.files :
              ~FileFails(site.files[k]) => k \in site.written
        /\ site.result = "Err" <=>
              \E k \in DOMAIN site.files : FileFails(site.files[k])


\* C30: the handle the last call of insert returned indexes the node that
\* call pushed, the last node of the arena, and no earlier call has returned
\* the same handle
C30_HandlesResolve ==
    md.inserts.last # NoHandle =>
        /\ md.inserts.last = md.inserts.len - 1
        /\ \A k \in 0..(md.inserts.len - 2) : NodeId(k) # md.inserts.last

====
